---- MODULE Spec2Model ----
(***************************************************************************)
(* A model of teams-tui: the owning loop of run_app (src/src/main.rs), the *)
(* view state of App (src/src/app.rs), the scroll recomputation of draw    *)
(* (src/src/ui.rs) and ImageCache (src/src/image_display.rs).              *)
(*                                                                         *)
(* Indices are 0-based as in the source; TLA+ sequences are 1-based, so    *)
(* element i of a Vec v is v[i + 1].  Option<T> is a sequence of length    *)
(* at most one: None is << >> and Some(x) is << x >>.                      *)
(***************************************************************************)
EXTENDS Integers, Sequences, FiniteSets, Bags, TLC

\* ------------------------------------------------------------- bounds
\* Longest chat list the service returns.
MaxChats == 2
\* Longest chat list of the chat merge specification.
MaxListed == 3
\* Chats in a fetched chat list whose members are looked at, and members of
\* one chat.
MaxFetched == 2
MaxMembers == 2
\* Calls of get_chats whose results are kept side by side.
MaxRuns == 2
\* Most results pending on one channel (the channels are unbounded).
MaxQueue == 1
\* Most background tasks in flight at once (tokio::spawn is unbounded).
MaxTasks == 2
\* Terminal size handed to draw by the frame.
TermWidth == 20
TermHeight == 12
\* Largest small line count / viewport height / offset tried by the scroll
\* specification (values next to the u16 limit are tried as well).
MaxLines == 7
\* Largest ImageCache capacity tried by the cache specification.
MaxCapacity == 3
\* Longest compose buffer.
MaxInput == 1
\* Scrolling is followed this far from either end of the u16 range.
ScrollCap == 12

\* ------------------------------------------------------------- values
None == << >>
Some(x) == << x >>

\* u16 arithmetic (App::scroll_offset and App::max_scroll are u16).
U16Max == 65535
saturating_sub(a, b) == IF a > b THEN a - b ELSE 0
saturating_add(a, b) == IF a + b > U16Max THEN U16Max ELSE a + b
as_u16(n) == n % (U16Max + 1)
Min(a, b) == IF a < b THEN a ELSE b
Max(a, b) == IF a > b THEN a ELSE b

\* Chat ids: as many chats exist as the longest list holds.
ChatIds == 1..MaxChats
Chat(id) == [id |-> id]

RECURSIVE InjSeqs(_, _)
\* The sequences of length at most n over S without repetition.
InjSeqs(S, n) ==
    IF n = 0 THEN {<< >>}
    ELSE LET shorter == InjSeqs(S, n - 1)
             longest == {t \in shorter : Len(t) = n - 1}
         IN  shorter \cup
             UNION {{Append(t, x) : x \in S \ {t[i] : i \in 1..Len(t)}} : t \in longest}

\* Results of api::get_chats: chat ids are unique within one snapshot.
ChatLists == {[i \in 1..Len(s) |-> Chat(s[i])] : s \in InjSeqs(ChatIds, MaxChats)}

\* The same for the chat merge specification, which has more chats.
ListedIds == 1..MaxListed
ListedChats == {[i \in 1..Len(s) |-> Chat(s[i])] : s \in InjSeqs(ListedIds, MaxListed)}

\* A file name: its stem and its extension as written.
Name(stem, ext) == [stem |-> stem, ext |-> ext]
NoName == Name("", "")
\* "image", the name given to an image attachment without one.
DefaultImageName == Name("image", "")
\* App::status: a format string and its arguments.
Status(text, n, name) == [text |-> text, n |-> n, name |-> name]

\* Attachments (api::MessageAttachment).  A name is modelled by its stem and
\* its extension as written, so that the case-insensitive extension test of
\* is_image is a real computation.
ImageExtensions == {".png", ".jpg", ".jpeg", ".gif", ".webp", ".bmp"}
to_lowercase(s) ==
    CASE s = ".PNG" -> ".png"
      [] s = "Image/PNG" -> "image/png"
      [] s = "Reference" -> "reference"
      [] OTHER -> s
starts_with_image(ct) == ct \in {"image/png", "image/jpeg"}

is_image(a) ==
    IF a.content_type # None
    THEN LET ct_lower == to_lowercase(a.content_type[1])
         IN  \/ starts_with_image(ct_lower)
             \/ /\ ct_lower = "reference"
                /\ a.name # None
                /\ to_lowercase(a.name[1].ext) \in ImageExtensions
    ELSE FALSE

get_image_url(a) ==
    IF a.thumbnail_url # None THEN a.thumbnail_url ELSE a.content_url

Attachment(ct, name, content, thumb) ==
    [content_type |-> ct, name |-> name, content_url |-> content,
     thumbnail_url |-> thumb]

\* The attachments the service holds for message n of a chat.
AttachmentsOf(n) ==
    CASE n = 2 -> << Attachment(Some("image/png"), Some(Name("a", ".png")),
                                Some("u1full"), Some("u1")) >>
      [] n = 3 -> << Attachment(Some("Reference"), Some(Name("b", ".PNG")),
                                Some("u2"), None),
                     Attachment(Some("reference"), Some(Name("notes", ".txt")),
                                Some("u3"), None),
                     Attachment(Some("image/png"), None, None, None),
                     Attachment(Some("Image/PNG"), None, Some("u4"), None) >>
      [] OTHER -> << >>

\* Message::created_date_time: a text that is an RFC 3339 time (of this day,
\* hour and minute) or is not one.
Stamp(day, hour, minute) == [rfc3339 |-> TRUE, day |-> day, hour |-> hour, minute |-> minute]
NoStamp == [rfc3339 |-> FALSE, day |-> 0, hour |-> 0, minute |-> 0]

\* Message::from and Message::body, down to the display name and the content.
From(display_name) == Some([user |-> Some([display_name |-> Some(display_name)])])
Body(content) == Some([content |-> Some(content)])

\* api::Message
Message(id, created_date_time, from, body, attachments) ==
    [id |-> id, created_date_time |-> created_date_time, from |-> from, body |-> body,
     attachments |-> attachments]

\* Message n of chat c; ids are unique within a chat.  Message 1 is the
\* user's own, the others are Bob's, all within one hour.
Msg(c, n) ==
    Message(<<c, n>>, Stamp(1, 10, n), From(IF n = 1 THEN "Me" ELSE "Bob"),
            Body(<< "h", "i" >>), AttachmentsOf(n))

\* Results of api::get_messages for chat c, newest first.
ServerMessages(c) ==
    { << >>,
      << Msg(c, 2), Msg(c, 1) >>,
      << Msg(c, 3), Msg(c, 1) >> }

\* Downloaded bytes: the image behind a url, or bytes that do not decode.
ImageBytes(url) == { <<url, "png">>, <<url, "garbage">> }
\* image::load_from_memory(&bytes).is_ok()
load_from_memory_ok(bytes) == bytes[2] = "png"


\* ------------------------------------------------------------- App
Rect(x, y, width, height) == [x |-> x, y |-> y, width |-> width, height |-> height]
RectDefault == Rect(0, 0, 0, 0)

\* ImageCache::new(max_size): a map from url to decoded image and a capacity.
ImageCacheNew(max_size) == [images |-> [k \in {} |-> k], max_size |-> max_size]

\* ImageCache::get
ImageCacheGet(c, url) == IF url \in DOMAIN c.images THEN Some(c.images[url]) ELSE None

\* ImageCache::contains
ImageCacheContains(c, url) == url \in DOMAIN c.images

\* `self.images.keys().next().cloned()`: HashMap iteration order is not
\* fixed, so any key may come first; None when the map is empty.
first_keys(c) ==
    IF DOMAIN c.images = {} THEN {None} ELSE {Some(k) : k \in DOMAIN c.images}

\* ImageCache::insert that empties a full map instead of removing one key.
ImageCacheInsertFlush(c, key, url, image) ==
    [c EXCEPT !.images =
        IF Cardinality(DOMAIN c.images) >= c.max_size /\ key # None
        THEN [k \in {url} |-> image]
        ELSE [k \in DOMAIN c.images \cup {url} |-> IF k = url THEN image ELSE c.images[k]]]

\* ImageCache::insert that inserts first and evicts afterwards.
ImageCacheInsertThenEvict(c, key, url, image) ==
    LET all == [k \in DOMAIN c.images \cup {url} |-> IF k = url THEN image ELSE c.images[k]]
    IN  [c EXCEPT !.images =
            IF Cardinality(DOMAIN c.images) >= c.max_size /\ DOMAIN c.images # {}
            THEN [k \in DOMAIN all \ {url} |-> all[k]]
            ELSE all]

\* ImageCache::insert, when keys().next() gives key.
ImageCacheInsert(c, key, url, image) ==
    LET kept == IF Cardinality(DOMAIN c.images) >= c.max_size /\ key # None
                THEN [k \in DOMAIN c.images \ {key[1]} |-> c.images[k]]
                ELSE c.images
    IN  [c EXCEPT !.images = [k \in DOMAIN kept \cup {url} |->
                                 IF k = url THEN image ELSE kept[k]]]

\* ImageCache::clear
ImageCacheClear(c) == [c EXCEPT !.images = [k \in {} |-> k]]

\* App::new()
AppNew ==
    [chats |-> << >>,
     status |-> Status("Loading...", 0, NoName),
     selected_index |-> 0,
     current_user_name |-> None,
     messages |-> << >>,
     loading_messages |-> FALSE,
     input_mode |-> FALSE,
     input_buffer |-> << >>,
     scroll_offset |-> 0,
     max_scroll |-> 0,
     snap_to_bottom |-> TRUE,
     focused_pane |-> "ChatList",
     chat_list_area |-> RectDefault,
     messages_area |-> RectDefault,
     image_picker |-> Some("picker"),
     image_cache |-> ImageCacheNew(50),
     image_protocols |-> {},
     viewing_image |-> None,
     current_image_protocol |-> None,
     loading_image |-> FALSE,
     image_error |-> None,
     viewable_images |-> << >>,
     selected_image_index |-> 0]

\* App::set_chats
set_chats(a, chats) ==
    [a EXCEPT !.chats = chats, !.status = Status("Loaded {} chats", Len(chats), NoName)]

\* App::set_current_user
set_current_user(a, name) == [a EXCEPT !.current_user_name = Some(name)]

ViewableImage(name, url) == [name |-> name, url |-> url]

RECURSIVE images_of_attachments(_)
\* The inner loop of App::update_viewable_images over one message's attachments.
images_of_attachments(atts) ==
    IF atts = << >> THEN << >>
    ELSE LET attachment == Head(atts)
             rest == images_of_attachments(Tail(atts))
         IN  IF is_image(attachment) /\ get_image_url(attachment) # None
             THEN << ViewableImage(
                        IF attachment.name # None THEN attachment.name[1] ELSE DefaultImageName,
                        get_image_url(attachment)[1]) >> \o rest
             ELSE rest

RECURSIVE images_of_messages(_)
\* The outer loop of App::update_viewable_images.
images_of_messages(msgs) ==
    IF msgs = << >> THEN << >>
    ELSE images_of_attachments(Head(msgs).attachments) \o images_of_messages(Tail(msgs))

\* App::update_viewable_images
update_viewable_images(a) ==
    [a EXCEPT !.viewable_images = images_of_messages(a.messages),
              !.selected_image_index = 0]

\* set_messages leaving the loading flag alone.
set_messages_still_loading(a, messages) ==
    update_viewable_images([a EXCEPT !.messages = messages])

\* App::set_messages
set_messages(a, messages) ==
    update_viewable_images([a EXCEPT !.messages = messages, !.loading_messages = FALSE])

\* App::set_loading_messages
set_loading_messages(a, loading) == [a EXCEPT !.loading_messages = loading]

\* App::get_selected_chat: self.chats.get(self.selected_index)
get_selected_chat(a) ==
    IF a.selected_index < Len(a.chats) THEN Some(a.chats[a.selected_index + 1]) ELSE None

\* next_chat that stops at the last chat instead of wrapping.
next_chat_stopping(a) ==
    IF a.chats # << >>
    THEN [a EXCEPT !.selected_index = Min(a.selected_index + 1, Len(a.chats) - 1),
                   !.image_protocols = {},
                   !.viewable_images = << >>,
                   !.selected_image_index = 0]
    ELSE a

\* App::next_chat
next_chat(a) ==
    IF a.chats # << >>
    THEN [a EXCEPT !.selected_index = (a.selected_index + 1) % Len(a.chats),
                   !.image_protocols = {},
                   !.viewable_images = << >>,
                   !.selected_image_index = 0]
    ELSE a

\* App::previous_chat
previous_chat(a) ==
    IF a.chats # << >>
    THEN [a EXCEPT !.selected_index =
                       IF a.selected_index > 0 THEN a.selected_index - 1
                       ELSE Len(a.chats) - 1,
                   !.image_protocols = {},
                   !.viewable_images = << >>,
                   !.selected_image_index = 0]
    ELSE a

\* App::is_viewing_image
is_viewing_image(a) == a.viewing_image # None

\* start_viewing_image leaving the prepared protocol of the image before.
start_viewing_image_over_old(a, image) ==
    [a EXCEPT !.status = Status("Loading image: {}...", 0, image.name),
              !.viewing_image = Some(image),
              !.loading_image = TRUE,
              !.image_error = None]

\* App::start_viewing_image
start_viewing_image(a, image) ==
    [a EXCEPT !.status = Status("Loading image: {}...", 0, image.name),
              !.viewing_image = Some(image),
              !.loading_image = TRUE,
              !.current_image_protocol = None,
              !.image_error = None]

\* App::set_image_protocol
set_image_protocol(a, protocol) ==
    [a EXCEPT !.current_image_protocol = Some(protocol),
              !.loading_image = FALSE,
              !.image_error = None]

\* App::set_image_error
set_image_error(a, error) ==
    [a EXCEPT !.loading_image = FALSE, !.image_error = Some(error)]

\* App::stop_viewing_image
stop_viewing_image(a) ==
    [a EXCEPT !.viewing_image = None,
              !.current_image_protocol = None,
              !.loading_image = FALSE,
              !.image_error = None]

\* App::get_current_viewable_image
get_current_viewable_image(a) ==
    IF a.viewable_images = << >> THEN None
    ELSE IF a.selected_image_index < Len(a.viewable_images)
         THEN Some(a.viewable_images[a.selected_image_index + 1])
         ELSE None

\* App::next_image
next_image(a) ==
    IF a.viewable_images # << >>
    THEN [a EXCEPT !.selected_image_index =
                       (a.selected_image_index + 1) % Len(a.viewable_images)]
    ELSE a

\* App::previous_image
previous_image(a) ==
    IF a.viewable_images # << >>
    THEN [a EXCEPT !.selected_image_index =
                       IF a.selected_image_index > 0 THEN a.selected_image_index - 1
                       ELSE Len(a.viewable_images) - 1]
    ELSE a

\* ImagePicker::new_resize_protocol: the prepared representation of an image.
new_resize_protocol(dyn_img) == <<"protocol", dyn_img>>


\* ------------------------------------------------------------- tasks
\* A background task spawned by run_app.  kind is "fetch" (get_messages for
\* chat_id, tagged chat_index), "send" (send_message, then reload and refresh;
\* stage is "send" or "refresh") or "image" (download_image of url); attempt
\* counts the attempts of the specification's "mark_read" task and is 0 in
\* every other.
Task(kind, chat_id, chat_index, url, stage) ==
    [kind |-> kind, chat_id |-> chat_id, chat_index |-> chat_index, url |-> url,
     stage |-> stage, attempt |-> 0]
FetchTask(chat_id, chat_index) == Task("fetch", chat_id, chat_index, "", "call")
SendTask(chat_id, chat_index) == Task("send", chat_id, chat_index, "", "send")
ImageTask(url) == Task("image", "", 0, url, "call")

\* What a handler returns: the new App, the tasks it spawned, and whether
\* run_app returns.
Step(a, spawn, ret) == [app |-> a, spawn |-> spawn, ret |-> ret]

\* ------------------------------------------------------------- run_app: merges
\* self.chats.iter().position(|c| c.id == id)
position(chats, id) ==
    LET hits == {i \in 1..Len(chats) : chats[i].id = id}
    IN  IF hits = {} THEN None
        ELSE Some((CHOOSE i \in hits : \A j \in hits : i <= j) - 1)

\* clamp_index without the clamp.
clamp_index_kept(a) == a

\* clamp_index going back to the first chat.
clamp_index_to_first(a) ==
    IF a.selected_index >= Len(a.chats) THEN [a EXCEPT !.selected_index = 0] ELSE a

\* The index left when the selected chat is not in the new collection.
clamp_index(a) ==
    IF a.selected_index >= Len(a.chats)
    THEN [a EXCEPT !.selected_index = saturating_sub(Len(a.chats), 1)]
    ELSE a

\* reanchor_index that finds the chat and keeps the index it had before.
reanchor_index_stale(a, id) ==
    IF position(a.chats, id) # None THEN Some(a.selected_index) ELSE None

\* The index the chat with this id gets after set_chats.
reanchor_index(a, id) == position(a.chats, id)

\* merge_chats fetching only for a chat that has moved in the list.
merge_chats_if_moved(a, chats) ==
    LET current_chat_id == IF get_selected_chat(a) # None
                           THEN Some(get_selected_chat(a)[1].id) ELSE None
        a1 == set_chats(a, chats)
    IN  IF current_chat_id # None
        THEN LET id == current_chat_id[1]
                 found == reanchor_index(a1, id)
             IN  IF found # None
                 THEN Step([a1 EXCEPT !.selected_index = found[1]],
                           IF found[1] # a.selected_index
                           THEN << FetchTask(id, found[1]) >> ELSE << >>, FALSE)
                 ELSE Step(clamp_index(a1), << >>, FALSE)
        ELSE Step(a1, << >>, FALSE)

\* The body of `while let Ok((chats, _)) = rx_chats.try_recv()`.
merge_chats(a, chats) ==
    LET current_chat_id == IF get_selected_chat(a) # None
                           THEN Some(get_selected_chat(a)[1].id) ELSE None
        a1 == set_chats(a, chats)
    IN  IF current_chat_id # None
        THEN LET id == current_chat_id[1]
                 found == reanchor_index(a1, id)
             IN  IF found # None
                 THEN Step([a1 EXCEPT !.selected_index = found[1]],
                           << FetchTask(id, found[1]) >>, FALSE)
                 ELSE Step(clamp_index(a1), << >>, FALSE)
        ELSE Step(a1, << >>, FALSE)

\* still_selected without the comparison: every snapshot is taken.
still_selected_always(a, chat_index) == TRUE

\* `if chat_index == app.selected_index`
still_selected(a, chat_index) == chat_index = a.selected_index

\* should_update without the short-circuit: every snapshot replaces the list.
should_update_always(a, messages) == TRUE

\* should_update of the message merge.
should_update(a, messages) ==
    IF Len(a.messages) # Len(messages) THEN TRUE
    ELSE IF a.messages # << >> /\ messages # << >>
         THEN a.messages[Len(a.messages)].id # messages[Len(messages)].id
         ELSE IF a.messages = << >> /\ messages = << >> THEN FALSE
              ELSE TRUE

\* The body of `while let Ok((chat_index, messages)) = rx.try_recv()`.
merge_messages(a, chat_index, messages) ==
    IF still_selected(a, chat_index)
    THEN IF should_update(a, messages)
         THEN [set_messages(a, messages) EXCEPT !.snap_to_bottom = TRUE]
         ELSE a
    ELSE a

\* still_viewing that only asks whether the viewer is open.
still_viewing_any(a, url) == a.viewing_image # None

\* `if let Some(ref viewing) = app.viewing_image { if viewing.url == url`
still_viewing(a, url) == a.viewing_image # None /\ a.viewing_image[1].url = url

\* The body of `while let Ok((url, bytes)) = rx_image.try_recv()`.
merge_image(a, url, bytes) ==
    IF still_viewing(a, url)
    THEN IF load_from_memory_ok(bytes)
         THEN IF a.image_picker # None
              THEN set_image_protocol(a, new_resize_protocol(bytes))
              ELSE a
         ELSE [a EXCEPT !.loading_image = FALSE]
    ELSE a


\* ------------------------------------------------------------- text
\* A String is the sequence of its chars.  Each char is one ASCII character,
\* or one of the glyphs "e_acute" (2 bytes in UTF-8, 1 column) and "cjk"
\* (3 bytes, 2 columns).
len_utf8(c) == CASE c = "e_acute" -> 2 [] c = "cjk" -> 3 [] OTHER -> 1
char_width(c) == CASE c = "cjk" -> 2 [] OTHER -> 1

\* str::len: the length in bytes.
len(s) ==
    Len(s) + Cardinality({i \in 1..Len(s) : len_utf8(s[i]) = 2})
           + 2 * Cardinality({i \in 1..Len(s) : len_utf8(s[i]) = 3})

\* UnicodeWidthStr::width: the length in terminal columns.
width(s) == Len(s) + Cardinality({i \in 1..Len(s) : char_width(s[i]) = 2})

\* char::is_whitespace
is_whitespace(c) == c \in {" ", "\n", "\t"}

\* &s[..n] and &s[n..], n counted in chars (every pattern searched for is
\* ASCII, so the offsets added to a match position are the same in bytes).
take(s, n) == SubSeq(s, 1, n)
drop(s, n) == SubSeq(s, n + 1, Len(s))

\* str::find: the offset of the first match.
find(s, pat) ==
    LET hits == {i \in 0..(Len(s) - Len(pat)) : \A k \in 1..Len(pat) : s[i + k] = pat[k]}
    IN  IF hits = {} THEN None ELSE Some(CHOOSE i \in hits : \A j \in hits : i <= j)

starts_with(s, pat) == Len(s) >= Len(pat) /\ take(s, Len(pat)) = pat
ends_with(s, pat) == Len(s) >= Len(pat) /\ drop(s, Len(s) - Len(pat)) = pat

RECURSIVE replace(_, _, _)
\* str::replace: every non-overlapping match, left to right.
replace(s, pat, to) ==
    LET f == find(s, pat)
    IN  IF f = None THEN s
        ELSE take(s, f[1]) \o to \o replace(drop(s, f[1] + Len(pat)), pat, to)

RECURSIVE trim_start(_)
trim_start(s) == IF s # << >> /\ is_whitespace(Head(s)) THEN trim_start(Tail(s)) ELSE s
RECURSIVE trim_end(_)
trim_end(s) ==
    IF s # << >> /\ is_whitespace(s[Len(s)]) THEN trim_end(take(s, Len(s) - 1)) ELSE s
\* str::trim
trim(s) == trim_end(trim_start(s))

RECURSIVE split_newline(_)
\* The pieces between the "\n" of s.
split_newline(s) ==
    LET f == find(s, << "\n" >>)
    IN  IF f = None THEN << s >>
        ELSE << take(s, f[1]) >> \o split_newline(drop(s, f[1] + 1))

\* str::lines: the pieces between the newlines; a final empty piece is no line.
lines(s) ==
    LET pieces == split_newline(s)
    IN  IF pieces[Len(pieces)] = << >> THEN take(pieces, Len(pieces) - 1) ELSE pieces

RECURSIVE split_whitespace(_)
\* str::split_whitespace: the maximal runs of non-whitespace chars.
split_whitespace(s) ==
    LET t == trim_start(s)
        ends == {i \in 1..Len(t) : is_whitespace(t[i])}
        n == IF ends = {} THEN Len(t) ELSE (CHOOSE i \in ends : \A j \in ends : i <= j) - 1
    IN  IF t = << >> THEN << >>
        ELSE << take(t, n) >> \o split_whitespace(drop(t, n))

\* ------------------------------------------------------------- draw: message text
AttachmentOpen == << "<", "a", "t", "t", "a", "c", "h", "m", "e", "n", "t" >>
AttachmentClose == << "<", "/", "a", "t", "t", "a", "c", "h", "m", "e", "n", "t", ">" >>
EmojiOpen == << "<", "e", "m", "o", "j", "i" >>
EmojiClose == << "<", "/", "e", "m", "o", "j", "i" >>
AltOpen == << "a", "l", "t", "=", "\"" >>

RECURSIVE remove_attachments(_, _)

\* The tag that opens at attach_start closes at tag_end: what is left to scan
\* after it, and after its `</attachment>` if it is not self-closing and has one.
after_attachment(remaining, attach_start, tag_end) ==
    LET after == drop(remaining, attach_start + tag_end + 1)
        close == find(after, AttachmentClose)
    IN  IF ends_with(SubSeq(remaining, attach_start + 1, attach_start + tag_end),
                     << "/" >>)
        THEN after
        ELSE IF close # None THEN drop(after, close[1] + 13) ELSE after

\* One iteration of the loop, for a tag found at attach_start: the text
\* before the tag is pushed, then the tag is skipped, or if it does not close
\* ("Malformed tag") remaining is pushed up to the end of `<attachment`.
attachment_at(attachment_removed, remaining, attach_start) ==
    LET tag == find(drop(remaining, attach_start), << ">" >>)
    IN  IF tag # None
        THEN remove_attachments(attachment_removed \o take(remaining, attach_start),
                                after_attachment(remaining, attach_start, tag[1]))
        ELSE remove_attachments(attachment_removed \o take(remaining, attach_start)
                                    \o take(remaining, attach_start + 11),
                                drop(remaining, attach_start + 11))

\* "Remove attachment tags": the while loop over remaining, and the final
\* push of what remains.
remove_attachments(attachment_removed, remaining) ==
    LET found == find(remaining, AttachmentOpen)
    IN  IF found = None THEN attachment_removed \o remaining
        ELSE attachment_at(attachment_removed, remaining, found[1])

RECURSIVE extract_emoji(_, _)

\* The value of the quoted text that starts alt_value.
alt_value_of(alt_value) ==
    LET alt_end == find(alt_value, << "\"" >>)
    IN  IF alt_end # None THEN take(alt_value, alt_end[1]) ELSE << >>

\* "Extract alt attribute value" of the opening tag.
alt_of(tag_str) ==
    LET alt_start == find(tag_str, AltOpen)
    IN  IF alt_start # None THEN alt_value_of(drop(tag_str, alt_start[1] + 5)) ELSE << >>

\* "Skip past closing </emoji> tag if present"
after_emoji_close(after) ==
    LET close_end == find(after, << ">" >>)
    IN  IF starts_with(after, EmojiClose) /\ close_end # None
        THEN drop(after, close_end[1] + 1)
        ELSE after

\* One iteration of the loop, for a tag found at emoji_start: the text before
\* the tag is pushed, then the alt text is pushed and the tag skipped, or if
\* the tag does not close ("Malformed tag") remaining is pushed up to the end
\* of `<emoji`.
emoji_at(emoji_processed, remaining, emoji_start) ==
    LET tag == find(drop(remaining, emoji_start), << ">" >>)
    IN  IF tag # None
        THEN extract_emoji(
                 emoji_processed \o take(remaining, emoji_start)
                     \o alt_of(SubSeq(remaining, emoji_start + 1,
                                      emoji_start + tag[1] + 1)),
                 after_emoji_close(drop(remaining, emoji_start + tag[1] + 1)))
        ELSE extract_emoji(emoji_processed \o take(remaining, emoji_start)
                               \o take(remaining, emoji_start + 6),
                           drop(remaining, emoji_start + 6))

\* "Extract emoji alt text": the while loop over remaining, and the final
\* push of what remains.
extract_emoji(emoji_processed, remaining) ==
    LET found == find(remaining, EmojiOpen)
    IN  IF found = None THEN emoji_processed \o remaining
        ELSE emoji_at(emoji_processed, remaining, found[1])

RECURSIVE replace_each(_, _)
\* A chain of str::replace calls, one per <<pattern, replacement>> of the
\* table, each applied to the result of the one before.
replace_each(s, table) ==
    IF table = << >> \/ s = << >> THEN s
    ELSE replace_each(replace(s, table[1][1], table[1][2]), Tail(table))

\* "Handle HTML entities"
Entities ==
    << << << "&", "n", "b", "s", "p", ";" >>, << " " >> >>,
       << << "&", "a", "m", "p", ";" >>, << "&" >> >>,
       << << "&", "l", "t", ";" >>, << "<" >> >>,
       << << "&", "g", "t", ";" >>, << ">" >> >>,
       << << "&", "q", "u", "o", "t", ";" >>, << "\"" >> >>,
       << << "&", "#", "3", "9", ";" >>, << "'" >> >>,
       << << "&", "a", "p", "o", "s", ";" >>, << "'" >> >>,
       << << "&", "#", "1", "6", "0", ";" >>, << " " >> >>,
       << << "&", "n", "b", "s", "p" >>, << " " >> >> >>
decode_entities(s) == replace_each(s, Entities)

\* "Convert block-level tags to newlines"
BlockTags ==
    << << << "<", "/", "p", ">" >>, << "\n" >> >>,
       << << "<", "p", ">" >>, << >> >>,
       << << "<", "/", "d", "i", "v", ">" >>, << "\n" >> >>,
       << << "<", "d", "i", "v", ">" >>, << >> >>,
       << << "<", "/", "l", "i", ">" >>, << "\n" >> >>,
       << << "<", "l", "i", ">" >>, << >> >>,
       << << "<", "b", "r", ">" >>, << "\n" >> >>,
       << << "<", "b", "r", "/", ">" >>, << "\n" >> >>,
       << << "<", "b", "r", " ", "/", ">" >>, << "\n" >> >>,
       << << "<", "/", "b", "r", ">" >>, << "\n" >> >> >>
block_tags_to_newlines(s) == replace_each(s, BlockTags)

RECURSIVE remove_tags(_, _)
\* "Remove remaining HTML tags": the chars outside `<` ... `>`.
remove_tags(s, inside_tag) ==
    IF s = << >> THEN << >>
    ELSE IF Head(s) = "<" THEN remove_tags(Tail(s), TRUE)
    ELSE IF Head(s) = ">" THEN remove_tags(Tail(s), FALSE)
    ELSE IF ~inside_tag THEN << Head(s) >> \o remove_tags(Tail(s), inside_tag)
    ELSE remove_tags(Tail(s), inside_tag)

RECURSIVE limit_newlines(_, _)
\* "limit consecutive newlines to 2"
limit_newlines(s, consecutive_newlines) ==
    IF s = << >> THEN << >>
    ELSE IF Head(s) = "\n"
         THEN (IF consecutive_newlines + 1 <= 2 THEN << "\n" >> ELSE << >>)
                 \o limit_newlines(Tail(s), consecutive_newlines + 1)
         ELSE << Head(s) >> \o limit_newlines(Tail(s), 0)

\* The strings draw makes of a message body one after the other, down to
\* the trimmed text it wraps.
clean(content) ==
    LET attachment_removed == remove_attachments(<< >>, content)
        emoji_processed == extract_emoji(<< >>, attachment_removed)
        entities_decoded == decode_entities(emoji_processed)
        clean_content == block_tags_to_newlines(entities_decoded)
        no_html == remove_tags(clean_content, FALSE)
        newlines_limited == limit_newlines(no_html, 0)
    IN  [attachment_removed |-> attachment_removed,
         emoji_processed |-> emoji_processed,
         entities_decoded |-> entities_decoded,
         clean_content |-> clean_content,
         no_html |-> no_html,
         newlines_limited |-> newlines_limited,
         final_content |-> trim(newlines_limited)]

final_content(content) == clean(content).final_content

\* `(width as f32 * 0.9) as usize`: for the widths of a u16 the f32 product
\* of a multiple of ten rounds to the integer, so this is the exact floor.
max_line_width(w) == (w * 9) \div 10

RECURSIVE wrap_words_no_space(_, _, _)
\* wrap_words without the column of the joining space in the test.
wrap_words_no_space(words, current_line, max) ==
    IF words = << >>
    THEN IF current_line # << >> THEN << current_line >> ELSE << >>
    ELSE LET word == Head(words)
         IN  IF len(current_line) + len(word) > max
             THEN << current_line >> \o wrap_words_no_space(Tail(words), word, max)
             ELSE wrap_words_no_space(Tail(words),
                                      IF current_line # << >>
                                      THEN current_line \o << " " >> \o word ELSE word,
                                      max)

RECURSIVE wrap_words(_, _, _)
\* The loop over the words of one line: the lines it pushes, ending with the
\* current line if that is not empty.
wrap_words(words, current_line, max) ==
    IF words = << >>
    THEN IF current_line # << >> THEN << current_line >> ELSE << >>
    ELSE LET word == Head(words)
         IN  IF len(current_line) + len(word) + 1 > max
             THEN << current_line >> \o wrap_words(Tail(words), word, max)
             ELSE wrap_words(Tail(words),
                             IF current_line # << >>
                             THEN current_line \o << " " >> \o word ELSE word,
                             max)

RECURSIVE wrap_lines(_, _)
wrap_lines(ls, max) ==
    IF ls = << >> THEN << >>
    ELSE wrap_words(split_whitespace(Head(ls)), << >>, max) \o wrap_lines(Tail(ls), max)

\* wrapped_lines without the line pushed for an empty text.
wrapped_lines_if_any(text, max) == wrap_lines(lines(text), max)

\* "Wrap text manually, preserving newlines"
wrapped_lines(text, max) ==
    IF text = << >> THEN << << >> >>
    ELSE LET wrapped == wrap_lines(lines(text), max)
         IN  IF wrapped = << >> THEN << << >> >> ELSE wrapped

\* ------------------------------------------------------------- draw
\* The pane rectangles draw stores for mouse hit-testing: a margin of 1, a
\* status bar of 3 rows below the content, the content split 30% / 70%, and in
\* input mode an input field of 3 rows below the messages.
layout(input_mode) ==
    LET inner_w == TermWidth - 2
        content_h == TermHeight - 2 - 3
        chat_w == (inner_w * 30) \div 100
    IN  [chat_list |-> Rect(1, 1, chat_w, content_h),
         messages |-> Rect(1 + chat_w, 1, inner_w - chat_w,
                           IF input_mode THEN content_h - 3 ELSE content_h)]

\* ------------------------------------------------------------- draw: messages pane
\* A ratatui Line of the messages pane: its text after pad spaces.
Line(pad, text) == [pad |-> pad, text |-> text]

\* msg.from ... display_name, or "Unknown".
sender_name(msg) ==
    IF msg.from # None /\ msg.from[1].user # None
          /\ msg.from[1].user[1].display_name # None
    THEN msg.from[1].user[1].display_name[1]
    ELSE "Unknown"

\* chrono::DateTime::parse_from_rfc3339(..).ok()
parse_from_rfc3339(text) ==
    IF text.rfc3339
    THEN Some([day |-> text.day, hour |-> text.hour, minute |-> text.minute])
    ELSE None

\* dt.format("%Y-%m-%d %H")
format_hour(dt) == << dt.day, dt.hour >>

\* "Format date": dt.format("%b %d %H:%M"), or the text as received.
date_str(msg) ==
    LET current_time == parse_from_rfc3339(msg.created_date_time)
    IN  IF current_time # None
        THEN << "%b %d %H:%M", current_time[1].day, current_time[1].hour,
                current_time[1].minute >>
        ELSE << "as received", msg.created_date_time.day,
                msg.created_date_time.hour, msg.created_date_time.minute >>

\* msg.body ... content, or "".
content_of(msg) ==
    IF msg.body # None /\ msg.body[1].content # None
    THEN msg.body[1].content[1]
    ELSE << >>

same_sender(last_sender, msg) == last_sender = Some(sender_name(msg))

significant_time_gap(last_message_time, msg) ==
    LET current_time == parse_from_rfc3339(msg.created_date_time)
    IN  IF current_time # None /\ last_message_time # None
        THEN format_hour(current_time[1]) # format_hour(last_message_time[1])
        ELSE FALSE

\* show_header without the time gap.
show_header_by_sender(last_sender, last_message_time, msg) ==
    ~same_sender(last_sender, msg)

show_header(last_sender, last_message_time, msg) ==
    ~same_sender(last_sender, msg) \/ significant_time_gap(last_message_time, msg)

\* The names on the indicator lines of a message's attachments.
image_indicators(msg) ==
    LET atts == SelectSeq(msg.attachments, is_image)
    IN  [i \in 1..Len(atts) |->
            IF atts[i].name # None THEN atts[i].name[1] ELSE DefaultImageName]

named_file(a) == ~is_image(a) /\ a.name # None
other_indicators(msg) ==
    LET atts == SelectSeq(msg.attachments, named_file)
    IN  [i \in 1..Len(atts) |-> atts[i].name[1]]

\* What one iteration of the loop over the messages pushes onto lines, for a
\* usable pane width w: a blank line unless lines is still empty, the header,
\* the body lines, the indicators.  text keeps the strings made of the body
\* on the way.  (The padding of a right-aligned header or indicator is not
\* kept.)
message_block(msg, me, last_sender, last_message_time, lines_is_empty, w) ==
    LET is_me == me # None /\ sender_name(msg) = me[1]
        header == show_header(last_sender, last_message_time, msg)
        text == clean(content_of(msg))
        wrapped == wrapped_lines(text.final_content, max_line_width(w))
    IN  [id |-> msg.id,
         text |-> text,
         blank |-> header /\ ~lines_is_empty,
         header |-> IF header
                    THEN Some([sender |-> IF is_me THEN "Me" ELSE sender_name(msg),
                               date |-> date_str(msg), is_me |-> is_me])
                    ELSE None,
         body |-> [i \in 1..Len(wrapped) |->
                      Line(IF is_me THEN saturating_sub(w, len(wrapped[i])) ELSE 0,
                           wrapped[i])],
         images |-> image_indicators(msg),
         others |-> other_indicators(msg)]

\* The number of lines of one block.
block_len(b) ==
    (IF b.blank THEN 1 ELSE 0) + (IF b.header # None THEN 1 ELSE 0)
        + Len(b.body) + Len(b.images) + Len(b.others)

\* The loop `for msg in ...`: last_sender and last_message_time are those of
\* the message before, and lines is empty in the first iteration only, every
\* iteration pushing at least one body line.
message_blocks(msgs, me, w) ==
    [i \in 1..Len(msgs) |->
        IF i = 1
        THEN message_block(msgs[i], me, None, None, TRUE, w)
        ELSE message_block(msgs[i], me, Some(sender_name(msgs[i - 1])),
                           parse_from_rfc3339(msgs[i - 1].created_date_time), FALSE, w)]

\* Iterator::rev
rev(s) == [i \in 1..Len(s) |-> s[Len(s) + 1 - i]]

\* newest_reversed taking the end of the list.
newest_reversed_from_end(messages) ==
    rev(drop(messages, saturating_sub(Len(messages), 100)))

\* app.messages.iter().take(100).rev()
newest_reversed(messages) == rev(take(messages, Min(Len(messages), 100)))

\* The blocks draw renders for these messages in a pane area this wide.
rendered_messages(messages, me, area_width) ==
    message_blocks(newest_reversed(messages), me, saturating_sub(area_width, 3))

RECURSIVE blocks_len(_)
blocks_len(blocks) ==
    IF blocks = << >> THEN 0 ELSE block_len(Head(blocks)) + blocks_len(Tail(blocks))

\* Results of api::get_me as main() keeps them.  (A failed profile fetch
\* leaves None; the name only decides the alignment of rendered lines.)
Profiles == {Some("Me")}

\* messages_content.len() for every message list api::get_messages returns,
\* user name and pane area width: the lines draw renders, computed once for
\* each and looked up by every draw.
RenderedLines ==
    [messages \in UNION {ServerMessages(c) : c \in ChatIds \cup ListedIds},
     me \in {None} \cup Profiles,
     area_width \in {layout(input_mode).messages.width : input_mode \in BOOLEAN} |->
        blocks_len(rendered_messages(messages, me, area_width))]

rendered_lines(messages, me, area_width) == RenderedLines[messages, me, area_width]

\* messages_content.len(): "Loading messages..." or the rendered newest 100.
messages_content_len(a) ==
    IF a.loading_messages \/ a.messages = << >> THEN 1
    ELSE rendered_lines(a.messages, a.current_user_name,
                        layout(a.input_mode).messages.width)

\* snap_offset without the extra margin.
snap_offset_unmargined(total_lines, viewport_height) ==
    Min(saturating_sub(total_lines, viewport_height), saturating_sub(total_lines, 1))

\* The offset draw gives a snapped view with more lines than rows.
snap_offset(total_lines, viewport_height) ==
    Min(saturating_add(saturating_sub(total_lines, viewport_height), 5),
        saturating_sub(total_lines, 1))

\* clamp_offset without the clamp.
clamp_offset_kept(scroll_offset, max_scroll) == scroll_offset

\* The offset draw leaves when the view is not snapped.
clamp_offset(scroll_offset, max_scroll) == Min(scroll_offset, max_scroll)

\* "Calculate scroll" of draw, for total_lines and viewport_height.
scroll_recompute(a, total_lines, viewport_height) ==
    LET a1 == [a EXCEPT !.max_scroll =
                   IF total_lines > viewport_height
                   THEN saturating_sub(total_lines, viewport_height) ELSE 0]
    IN  IF a1.snap_to_bottom
        THEN LET a2 == [a1 EXCEPT !.scroll_offset =
                            IF total_lines > viewport_height
                            THEN snap_offset(total_lines, viewport_height) ELSE 0]
             IN  [a2 EXCEPT !.max_scroll = Max(a2.max_scroll, a2.scroll_offset)]
        ELSE [a1 EXCEPT !.scroll_offset = clamp_offset(a1.scroll_offset, a1.max_scroll)]

\* "Store pane areas for mouse click detection".
store_areas(a) ==
    [a EXCEPT !.chat_list_area = layout(a.input_mode).chat_list,
              !.messages_area = layout(a.input_mode).messages]

\* ui::draw, as far as it changes App.
draw(a) ==
    LET a1 == store_areas(a)
        total_lines == as_u16(messages_content_len(a1))
        viewport_height == saturating_sub(a1.messages_area.height, 2)
    IN  scroll_recompute(a1, total_lines, viewport_height)

\* ------------------------------------------------------------- run_app: events
Key(code, c) == [type |-> "Key", code |-> code, c |-> c, kind |-> "", column |-> 0, row |-> 0]
Mouse(kind, column, row) ==
    [type |-> "Mouse", code |-> "", c |-> "", kind |-> kind, column |-> column, row |-> row]
OtherEvent == [type |-> "Resize", code |-> "", c |-> "", kind |-> "", column |-> 0, row |-> 0]

in_rect(area, x, y) ==
    /\ x >= area.x /\ x < area.x + area.width
    /\ y >= area.y /\ y < area.y + area.height

\* `if let Some(img) = app.get_current_viewable_image().cloned()`: start
\* viewing it and spawn its download.
view_current_image(a) ==
    LET img == get_current_viewable_image(a)
    IN  IF img # None
        THEN Step(start_viewing_image(a, img[1]), << ImageTask(img[1].url) >>, FALSE)
        ELSE Step(a, << >>, FALSE)

\* viewer_key with q leaving run_app as it does outside the viewer.
viewer_key_q_quits(a, key) ==
    IF key.code = "Char" /\ key.c = "q"
    THEN Step(a, << >>, TRUE)
    ELSE IF key.code = "Esc"
    THEN Step(stop_viewing_image(a), << >>, FALSE)
    ELSE IF key.code = "Left" \/ (key.code = "Char" /\ key.c = "h")
    THEN view_current_image(previous_image(a))
    ELSE IF key.code = "Right" \/ (key.code = "Char" /\ key.c = "l")
    THEN view_current_image(next_image(a))
    ELSE Step(a, << >>, FALSE)

\* Event::Key while app.is_viewing_image().
viewer_key(a, key) ==
    IF key.code = "Esc" \/ (key.code = "Char" /\ key.c = "q")
    THEN Step(stop_viewing_image(a), << >>, FALSE)
    ELSE IF key.code = "Left" \/ (key.code = "Char" /\ key.c = "h")
    THEN view_current_image(previous_image(a))
    ELSE IF key.code = "Right" \/ (key.code = "Char" /\ key.c = "l")
    THEN view_current_image(next_image(a))
    ELSE Step(a, << >>, FALSE)

\* send_key leaving compose mode with the text still in the buffer.
send_key_keeping_text(a) ==
    IF a.input_buffer # << >>
    THEN LET a1 == [a EXCEPT !.input_mode = FALSE]
             chat == get_selected_chat(a1)
         IN  IF chat # None
             THEN Step([a1 EXCEPT !.snap_to_bottom = TRUE],
                       << SendTask(chat[1].id, a1.selected_index) >>, FALSE)
             ELSE Step(a1, << >>, FALSE)
    ELSE Step(a, << >>, FALSE)

\* KeyCode::Enter if app.input_mode
send_key(a) ==
    IF a.input_buffer # << >>
    THEN LET a1 == [a EXCEPT !.input_buffer = << >>, !.input_mode = FALSE]
             chat == get_selected_chat(a1)
         IN  IF chat # None
             THEN Step([a1 EXCEPT !.snap_to_bottom = TRUE],
                       << SendTask(chat[1].id, a1.selected_index) >>, FALSE)
             ELSE Step(a1, << >>, FALSE)
    ELSE Step(a, << >>, FALSE)

\* scroll_up with a wrapping subtraction in place of the saturating one.
scroll_up_wrapping(a, n) ==
    [a EXCEPT !.snap_to_bottom = FALSE,
              !.scroll_offset = (a.scroll_offset - n) % (U16Max + 1)]

\* KeyCode::PageUp, and the wheel over the messages pane: scroll up by n.
scroll_up(a, n) ==
    [a EXCEPT !.snap_to_bottom = FALSE, !.scroll_offset = saturating_sub(a.scroll_offset, n)]

\* scroll_down that snaps only beyond max_scroll, not on reaching it.
scroll_down_beyond(a, n) ==
    LET a1 == [a EXCEPT !.scroll_offset = saturating_add(a.scroll_offset, n)]
    IN  IF a1.scroll_offset > a1.max_scroll THEN [a1 EXCEPT !.snap_to_bottom = TRUE] ELSE a1

\* KeyCode::PageDown, and the wheel over the messages pane: scroll down by n.
scroll_down(a, n) ==
    LET a1 == [a EXCEPT !.scroll_offset = saturating_add(a.scroll_offset, n)]
    IN  IF a1.scroll_offset >= a1.max_scroll THEN [a1 EXCEPT !.snap_to_bottom = TRUE] ELSE a1

\* "Normal key handling".
normal_key(a, key) ==
    LET char(c) == key.code = "Char" /\ key.c = c
    IN  IF char("q") /\ ~a.input_mode THEN Step(a, << >>, TRUE)
        ELSE IF (key.code = "Down" \/ char("j")) /\ ~a.input_mode
        THEN Step(next_chat(a), << >>, FALSE)
        ELSE IF (key.code = "Up" \/ char("k")) /\ ~a.input_mode
        THEN Step(previous_chat(a), << >>, FALSE)
        ELSE IF char("v") /\ ~a.input_mode THEN view_current_image(a)
        ELSE IF char("i") /\ ~a.input_mode
        THEN Step([a EXCEPT !.input_mode = TRUE, !.input_buffer = << >>], << >>, FALSE)
        ELSE IF key.code = "Esc" /\ a.input_mode
        THEN Step([a EXCEPT !.input_mode = FALSE, !.input_buffer = << >>], << >>, FALSE)
        ELSE IF key.code = "Enter" /\ a.input_mode THEN send_key(a)
        ELSE IF key.code = "Backspace" /\ a.input_mode
        THEN Step([a EXCEPT !.input_buffer =
                       IF a.input_buffer = << >> THEN << >>
                       ELSE SubSeq(a.input_buffer, 1, Len(a.input_buffer) - 1)],
                  << >>, FALSE)
        ELSE IF key.code = "Char" /\ a.input_mode
        THEN Step([a EXCEPT !.input_buffer = Append(a.input_buffer, key.c)], << >>, FALSE)
        ELSE IF key.code = "PageUp" THEN Step(scroll_up(a, 10), << >>, FALSE)
        ELSE IF key.code = "PageDown" THEN Step(scroll_down(a, 10), << >>, FALSE)
        ELSE Step(a, << >>, FALSE)

\* Event::Mouse.  (App::active_pane, which these branches also set, is
\* written and never read; it is not part of App here.)
mouse_event(a, ev) ==
    LET x == ev.column
        y == ev.row
        in_chat_list == in_rect(a.chat_list_area, x, y)
        in_messages == in_rect(a.messages_area, x, y)
    IN  IF ev.kind = "DownLeft"
        THEN IF in_chat_list
             THEN LET a1 == a
                      clicked_index == saturating_sub(y, a.chat_list_area.y + 1)
                  IN  IF clicked_index < Len(a1.chats)
                      THEN [a1 EXCEPT !.selected_index = clicked_index]
                      ELSE a1
             ELSE a
        ELSE IF ev.kind = "ScrollUp"
        THEN IF in_chat_list
             THEN LET a1 == a
                  IN  IF a1.selected_index > 0
                      THEN [a1 EXCEPT !.selected_index = a1.selected_index - 1]
                      ELSE a1
             ELSE IF in_messages
                  THEN scroll_up(a, 3)
                  ELSE a
        ELSE IF ev.kind = "ScrollDown"
        THEN IF in_chat_list
             THEN LET a1 == a
                  IN  IF a1.chats # << >> /\ a1.selected_index < Len(a1.chats) - 1
                      THEN [a1 EXCEPT !.selected_index = a1.selected_index + 1]
                      ELSE a1
             ELSE IF in_messages
                  THEN scroll_down(a, 3)
                  ELSE a
        ELSE a

\* selection_changed that starts the fetch and leaves the snap flag alone.
selection_changed_unsnapped(previous_index, r) ==
    IF previous_index # r.app.selected_index /\ get_selected_chat(r.app) # None
    THEN Step(set_messages(set_loading_messages(r.app, TRUE), << >>),
              r.spawn \o << FetchTask(get_selected_chat(r.app)[1].id, r.app.selected_index) >>,
              r.ret)
    ELSE r

\* selection_changed that starts the fetch and keeps the old messages on
\* display until it returns.
selection_changed_kept(previous_index, r) ==
    IF previous_index # r.app.selected_index /\ get_selected_chat(r.app) # None
    THEN Step([set_loading_messages(r.app, TRUE) EXCEPT !.snap_to_bottom = TRUE],
              r.spawn \o << FetchTask(get_selected_chat(r.app)[1].id, r.app.selected_index) >>,
              r.ret)
    ELSE r

\* "If selection changed, spawn a background task to load messages".
selection_changed(previous_index, r) ==
    IF previous_index # r.app.selected_index
    THEN LET chat == get_selected_chat(r.app)
         IN  IF chat # None
             THEN LET a1 == set_loading_messages(r.app, TRUE)
                      a2 == set_messages(a1, << >>)
                  IN  Step([a2 EXCEPT !.snap_to_bottom = TRUE],
                           r.spawn \o << FetchTask(chat[1].id, r.app.selected_index) >>,
                           r.ret)
             ELSE r
    ELSE r

\* The body of `if event::poll(..)? { .. }` for one event read.
handle_event(a, ev) ==
    LET previous_index == a.selected_index
    IN  IF ev.type = "Key"
        THEN IF is_viewing_image(a)
             THEN viewer_key(a, ev)                          \* ends in `continue`
             ELSE LET r == normal_key(a, ev)
                  IN  IF r.ret THEN r ELSE selection_changed(previous_index, r)
        ELSE IF ev.type = "Mouse"
        THEN selection_changed(previous_index, Step(mouse_event(a, ev), << >>, FALSE))
        ELSE selection_changed(previous_index, Step(a, << >>, FALSE))


\* ------------------------------------------------------------- state
VARIABLES
    app,        \* the App owned by run_app
    rx,         \* message channel: (chat_index, messages) results pending
    rx_chats,   \* chat channel: (chats, detected user) results pending
    rx_image,   \* image channel: (url, bytes) results pending
    tasks,      \* bag of spawned background tasks still running
    pc,         \* where run_app's loop stands
    cache,      \* an ImageCache exercised on its own
    rx_status,  \* status channel of the specification: status texts pending
    frame       \* the messages pane as rendered for a property about it

vars == <<app, rx, rx_chats, rx_image, tasks, pc, cache, rx_status, frame>>

\* No pane has been rendered.
NoFrame == [drawn |-> FALSE]

MessageSnapshot(chat_index, messages) == [chat_index |-> chat_index, messages |-> messages]
ChatSnapshot(chats, user) == [chats |-> chats, user |-> user]
ImageResult(url, bytes) == [url |-> url, bytes |-> bytes]

spawn_all(bag, spawned) == bag (+) [t \in {spawned[i] : i \in 1..Len(spawned)} |->
                                      Cardinality({i \in 1..Len(spawned) : spawned[i] = t})]
\* At most MaxTasks tasks run at once: a step that would spawn beyond that is
\* not taken.
room_for(spawned) == BagCardinality(tasks) + Len(spawned) <= MaxTasks

\* main() up to run_app's loop: the first chat fetch has succeeded, the user
\* profile fetch may have failed, and the messages of the first chat are
\* being loaded.
Init ==
    /\ \E chats \in ChatLists, user \in Profiles :
          LET a1 == set_chats(AppNew, chats)
              a2 == IF user # None THEN set_current_user(a1, user[1]) ELSE a1
              chat == get_selected_chat(a2)
          IN  IF chat # None
              THEN /\ app = set_loading_messages(a2, TRUE)
                   /\ tasks = SetToBag({FetchTask(chat[1].id, a2.selected_index)})
              ELSE /\ app = a2
                   /\ tasks = EmptyBag
    /\ rx = << >>
    /\ rx_chats = << >>
    /\ rx_image = << >>
    /\ pc = "drain_chats"
    /\ cache = ImageCacheNew(0)
    /\ rx_status = << >>
    /\ frame = NoFrame

\* ------------------------------------------------------------- run_app: the loop
\* One iteration of `while let Ok((chats, _)) = rx_chats.try_recv()`.
DrainChats ==
    /\ pc = "drain_chats"
    /\ rx_chats # << >>
    /\ LET r == merge_chats(app, Head(rx_chats).chats)
       IN  /\ room_for(r.spawn)
           /\ app' = r.app
           /\ tasks' = spawn_all(tasks, r.spawn)
    /\ rx_chats' = Tail(rx_chats)
    /\ UNCHANGED <<rx, rx_image, pc, cache, rx_status, frame>>

\* try_recv fails on the empty chat channel: the loop ends.
DrainChatsEnd ==
    /\ pc = "drain_chats"
    /\ rx_chats = << >>
    /\ pc' = "drain_messages"
    /\ UNCHANGED <<app, rx, rx_chats, rx_image, tasks, cache, rx_status, frame>>

\* One iteration of `while let Ok((chat_index, messages)) = rx.try_recv()`.
DrainMessages ==
    /\ pc = "drain_messages"
    /\ rx # << >>
    /\ app' = merge_messages(app, Head(rx).chat_index, Head(rx).messages)
    /\ rx' = Tail(rx)
    /\ UNCHANGED <<rx_chats, rx_image, tasks, pc, cache, rx_status, frame>>

\* DrainMessagesEnd as `if let` would make it: the loop moves on after one
\* try_recv whatever is left on the channel.
DrainMessagesOnce ==
    /\ pc = "drain_messages"
    /\ pc' = "drain_images"
    /\ UNCHANGED <<app, rx, rx_chats, rx_image, tasks, cache, rx_status, frame>>

DrainMessagesEnd ==
    /\ pc = "drain_messages"
    /\ rx = << >>
    /\ pc' = "drain_images"
    /\ UNCHANGED <<app, rx, rx_chats, rx_image, tasks, cache, rx_status, frame>>

\* One iteration of `while let Ok((url, bytes)) = rx_image.try_recv()`.
DrainImages ==
    /\ pc = "drain_images"
    /\ rx_image # << >>
    /\ app' = merge_image(app, Head(rx_image).url, Head(rx_image).bytes)
    /\ rx_image' = Tail(rx_image)
    /\ UNCHANGED <<rx, rx_chats, tasks, pc, cache, rx_status, frame>>

DrainImagesEnd ==
    /\ pc = "drain_images"
    /\ rx_image = << >>
    /\ pc' = "draw"
    /\ UNCHANGED <<app, rx, rx_chats, rx_image, tasks, cache, rx_status, frame>>

\* terminal.draw(|f| ui::draw(f, app))
Draw ==
    /\ pc = "draw"
    /\ app' = draw(app)
    /\ pc' = "poll"
    /\ UNCHANGED <<rx, rx_chats, rx_image, tasks, cache, rx_status, frame>>

\* event::poll returns true and event::read returns ev.
PollEvent(ev) ==
    /\ pc = "poll"
    /\ ev.type = "Key" /\ ev.code = "Char" /\ app.input_mode
          => Len(app.input_buffer) < MaxInput
    /\ LET r == handle_event(app, ev)
       IN  /\ room_for(r.spawn)
           /\ app' = r.app
           /\ tasks' = spawn_all(tasks, r.spawn)
           /\ pc' = IF r.ret THEN "done" ELSE "drain_chats"
    /\ UNCHANGED <<rx, rx_chats, rx_image, cache, rx_status, frame>>

\* event::poll times out after 100 ms.
PollTimeout ==
    /\ pc = "poll"
    /\ pc' = "drain_chats"
    /\ UNCHANGED <<app, rx, rx_chats, rx_image, tasks, cache, rx_status, frame>>

\* ------------------------------------------------------------- background tasks
\* What auth::get_valid_token_silent and the service call after it returned:
\* token is "Ok" or "Err"; value is Some(result) or None for Err (and None when
\* the token failed and no call was made).
Outcome(token, value) == [token |-> token, value |-> value]
TokenErr == Outcome("Err", None)
ServiceErr == Outcome("Ok", None)
Ok(value) == Outcome("Ok", Some(value))

\* The chat refresh task, one interval tick: what it sends on tx_chats.
poll_chats_sends(res) ==
    IF res.token = "Ok"
    THEN IF res.value # None THEN << ChatSnapshot(res.value[1], None) >> ELSE << >>
    ELSE << >>

\* fetch_sends that sends an empty list when the fetch failed
\* (unwrap_or_default instead of `if let Ok`).
fetch_sends_default(t, res) ==
    IF res.token = "Ok" /\ res.value # None
    THEN << MessageSnapshot(t.chat_index, res.value[1]) >>
    ELSE << MessageSnapshot(t.chat_index, << >>) >>

\* A message fetch task: what it sends on tx.
fetch_sends(t, res) ==
    IF res.token = "Ok"
    THEN IF res.value # None
         THEN << MessageSnapshot(t.chat_index, res.value[1]) >>
         ELSE << >>
    ELSE << >>

\* An image download task: what it sends on tx_img.
image_sends(t, res) ==
    IF res.token = "Ok"
    THEN IF res.value # None THEN << ImageResult(t.url, res.value[1]) >> ELSE << >>
    ELSE << >>

\* One tick of the chat refresh task (it loops for ever), with outcome res.
PollChatsResult(res) ==
    LET out == poll_chats_sends(res)
    IN  /\ Len(rx_chats) + Len(out) <= MaxQueue
        /\ rx_chats' = rx_chats \o out
        /\ UNCHANGED <<app, rx, rx_image, tasks, pc, cache, rx_status, frame>>

PollChats ==
    \E res \in {TokenErr, ServiceErr} \cup {Ok(chats) : chats \in ChatLists} :
        PollChatsResult(res)

\* FetchMessagesResult of a task that calls get_messages a second time when
\* the first call failed.
FetchMessagesRetrying(t, res) ==
    LET out == fetch_sends(t, res)
    IN  /\ t.kind = "fetch"
        /\ Len(rx) + Len(out) <= MaxQueue
        /\ rx' = rx \o out
        /\ tasks' = IF out = << >> /\ t.attempt = 0
                    THEN (tasks (-) SetToBag({t})) (+) SetToBag({[t EXCEPT !.attempt = 1]})
                    ELSE tasks (-) SetToBag({t})
        /\ UNCHANGED <<app, rx_chats, rx_image, pc, cache, rx_status, frame>>

\* The message fetch task t runs to its end with outcome res.
FetchMessagesResult(t, res) ==
    LET out == fetch_sends(t, res)
    IN  /\ t.kind = "fetch"
        /\ Len(rx) + Len(out) <= MaxQueue
        /\ rx' = rx \o out
        /\ tasks' = tasks (-) SetToBag({t})
        /\ UNCHANGED <<app, rx_chats, rx_image, pc, cache, rx_status, frame>>

FetchMessages ==
    \E t \in BagToSet(tasks) :
        \E res \in {TokenErr, ServiceErr} \cup {Ok(m) : m \in ServerMessages(t.chat_id)} :
            FetchMessagesResult(t, res)

\* The image download task t runs to its end with outcome res.
DownloadImageResult(t, res) ==
    LET out == image_sends(t, res)
    IN  /\ t.kind = "image"
        /\ Len(rx_image) + Len(out) <= MaxQueue
        /\ rx_image' = rx_image \o out
        /\ tasks' = tasks (-) SetToBag({t})
        /\ UNCHANGED <<app, rx, rx_chats, pc, cache, rx_status, frame>>

DownloadImage ==
    \E t \in BagToSet(tasks) :
        \E res \in {TokenErr, ServiceErr} \cup {Ok(b) : b \in ImageBytes(t.url)} :
            DownloadImageResult(t, res)

\* The task spawned by Enter: send_message, then reload the messages.
SendMessage ==
    \E t \in BagToSet(tasks) :
        /\ t.kind = "send" /\ t.stage = "send"
        /\ \E token \in {"Ok", "Err"}, sent \in {"Ok", "Err"},
              reload \in {None} \cup {Some(m) : m \in ServerMessages(t.chat_id)} :
              IF token = "Ok" /\ sent = "Ok"
              THEN /\ Len(rx) + Len(reload) <= MaxQueue
                   /\ rx' = rx \o fetch_sends(t, Outcome("Ok", reload))
                   /\ tasks' = (tasks (-) SetToBag({t}))
                                  (+) SetToBag({[t EXCEPT !.stage = "refresh"]})
              ELSE /\ reload = None
                   /\ rx' = rx
                   /\ tasks' = tasks (-) SetToBag({t})
        /\ UNCHANGED <<app, rx_chats, rx_image, pc, cache, rx_status, frame>>

\* The task spawned by Enter, after the reload: refresh the chat list.
SendRefresh ==
    \E t \in BagToSet(tasks) :
        /\ t.kind = "send" /\ t.stage = "refresh"
        /\ \E res \in {ServiceErr} \cup {Ok(chats) : chats \in ChatLists} :
              LET out == poll_chats_sends(res)
              IN  /\ Len(rx_chats) + Len(out) <= MaxQueue
                  /\ rx_chats' = rx_chats \o out
        /\ tasks' = tasks (-) SetToBag({t})
        /\ UNCHANGED <<app, rx, rx_image, pc, cache, rx_status, frame>>

\* ------------------------------------------------------------- specifications
KeyCodes == {"Esc", "Left", "Right", "Down", "Up", "Enter", "Backspace", "PageUp",
             "PageDown", "Tab"}
Chars == {"q", "h", "l", "j", "k", "v", "i", "x"}
MouseKinds == {"DownLeft", "ScrollUp", "ScrollDown", "Moved"}
\* One column outside the panes, one in the chat list, one in the messages.
Columns == {0, layout(FALSE).chat_list.x, layout(FALSE).messages.x}
\* The rows down to the one below the longest chat list.
Rows == 0..(layout(FALSE).chat_list.y + 1 + MaxChats)

KeyEvents == {Key(code, "") : code \in KeyCodes} \cup {Key("Char", c) : c \in Chars}
MouseEvents == {Mouse(kind, x, y) : kind \in MouseKinds, x \in Columns, y \in Rows}
Events == KeyEvents \cup MouseEvents \cup {OtherEvent}

\* Chat navigation: keys, clicks and the wheel.
NavEvents ==
    {Key("Down", ""), Key("Up", ""), Key("Char", "j"), Key("Char", "k"), Key("Tab", ""),
     OtherEvent}
    \cup {Mouse(kind, x, y) : kind \in MouseKinds, x \in Columns, y \in Rows}

\* The reconciliation of chat and message snapshots under chat navigation.
\* No image is requested here, so the image channel stays empty.  run_app sees
\* a task's send only at the try_recv of its channel, and neither task reads
\* what run_app writes: a send at any other moment gives run_app the same
\* results in the same order as that send delayed to the try_recv that meets
\* it, so the sends are scheduled there.
Next ==
    \/ DrainChats \/ DrainChatsEnd
    \/ DrainMessages \/ DrainMessagesEnd
    \/ DrainImagesEnd
    \/ Draw
    \/ PollTimeout
    \/ \E ev \in NavEvents : PollEvent(ev)
    \/ pc = "drain_chats" /\ PollChats
    \/ pc = "drain_messages" /\ FetchMessages

Spec == Init /\ [][Next]_vars


\* ------------------------------------------------------------- properties
\* The step of run_app that takes one result off the message channel.
TakesMessage == pc = "drain_messages" /\ rx # << >> /\ rx' = Tail(rx)
\* The step of run_app that takes one result off the chat channel.
TakesChats == pc = "drain_chats" /\ rx_chats # << >> /\ rx_chats' = Tail(rx_chats)
\* The step of run_app that takes one result off the image channel.
TakesImage == pc = "drain_images" /\ rx_image # << >> /\ rx_image' = Tail(rx_image)

\* C1 (stale discard): when run_app takes a message snapshot whose chat index
\* differs from the selected index, the message list, the viewable-image
\* list, the selected image index, the loading flag, the snap-to-bottom flag
\* and the scroll offset all keep their values.
C1_StaleDiscard ==
    [][TakesMessage /\ Head(rx).chat_index # app.selected_index
         => /\ app'.messages = app.messages
            /\ app'.viewable_images = app.viewable_images
            /\ app'.selected_image_index = app.selected_image_index
            /\ app'.loading_messages = app.loading_messages
            /\ app'.snap_to_bottom = app.snap_to_bottom
            /\ app'.scroll_offset = app.scroll_offset]_vars

\* A stale snapshot is about to be taken, and applying it would change the
\* list on display.
C1_Witness ==
    /\ pc = "drain_messages" /\ rx # << >>
    /\ Head(rx).chat_index # app.selected_index
    /\ app.messages # << >>
    /\ Head(rx).messages # << >>
    /\ Head(rx).messages # app.messages

\* C2: the selected index is below the number of chats whenever there are
\* chats, and is 0 when there are none.
C2_SelectedIndexInRange ==
    IF app.chats # << >>
    THEN 0 <= app.selected_index /\ app.selected_index < Len(app.chats)
    ELSE app.selected_index = 0

\* The last chat of a list has been selected and a shorter list is pending:
\* its merge must clamp.
C2_Witness ==
    /\ pc = "drain_chats" /\ rx_chats # << >>
    /\ Len(app.chats) = MaxChats
    /\ app.selected_index = MaxChats - 1
    /\ Len(Head(rx_chats).chats) < Len(app.chats)

\* The chats of a list that carry this id.
Holding(chats, id) == {i \in 1..Len(chats) : chats[i].id = id}

\* C3 (re-anchoring by id): when a chat snapshot is merged and the id of the
\* chat selected before occurs in the new collection, the selected index is
\* afterwards the position of that id in the new collection.
C3_ReanchorById ==
    [][TakesChats /\ app.selected_index < Len(app.chats)
         /\ Holding(Head(rx_chats).chats, app.chats[app.selected_index + 1].id) # {}
         => /\ app'.chats = Head(rx_chats).chats
            /\ Holding(app'.chats, app.chats[app.selected_index + 1].id)
                  = {app'.selected_index + 1}]_vars

\* The selected chat sits at another position in the pending snapshot.
C3_Witness ==
    /\ pc = "drain_chats" /\ rx_chats # << >>
    /\ app.selected_index < Len(app.chats)
    /\ Holding(Head(rx_chats).chats, app.chats[app.selected_index + 1].id) # {}
    /\ app.selected_index + 1
          \notin Holding(Head(rx_chats).chats, app.chats[app.selected_index + 1].id)

\* C7 (last drained wins): when the list on display is a snapshot of the
\* selected chat and another snapshot of that chat, tagged with the selected
\* index, is taken next, the list on display afterwards is that snapshot's.
C7_LastDrainedWins ==
    [][TakesMessage /\ Head(rx).chat_index = app.selected_index
         /\ app.selected_index < Len(app.chats)
         /\ app.messages \in ServerMessages(app.chats[app.selected_index + 1].id)
         /\ Head(rx).messages \in ServerMessages(app.chats[app.selected_index + 1].id)
         => app'.messages = Head(rx).messages]_vars

\* A chat poll or a message fetch whose token or service call failed.
FailedFetch ==
    \/ \E res \in {TokenErr, ServiceErr} : PollChatsResult(res)
    \/ \E t \in BagToSet(tasks) :
          \E res \in {TokenErr, ServiceErr} : FetchMessagesResult(t, res)

\* C10: a chat poll or message fetch that fails puts nothing on any channel
\* and leaves the App (chat list, selected index, message list, scroll state
\* and all the rest) as it was.
C10_FailuresSwallowed ==
    [][FailedFetch => UNCHANGED <<app, rx, rx_chats, rx_image>>]_vars

\* A fetch for the chat on display is in flight while its messages are shown:
\* its failure must leave them there.
C10_Witness ==
    /\ pc = "drain_messages"
    /\ app.messages # << >>
    /\ \E t \in BagToSet(tasks) : t.kind = "fetch" /\ t.chat_index = app.selected_index


\* ------------------------------------------------------------- scrolling
\* ui::draw for a message pane of total_lines lines shown in viewport_height
\* rows: the two numbers draw computes from the rendered content and the
\* terminal size, here any u16 values.
DrawLines(total_lines, viewport_height) ==
    /\ pc = "draw"
    /\ app' = scroll_recompute(store_areas(app), total_lines, viewport_height)
    /\ pc' = "poll"
    /\ UNCHANGED <<rx, rx_chats, rx_image, tasks, cache, rx_status, frame>>

\* Line counts and heights: the small ones and the ends of the u16 range.
LineCounts == 0..MaxLines \cup {U16Max - 1, U16Max}

\* PageUp, PageDown and the wheel over the messages pane.
ScrollEvents ==
    {Key("PageUp", ""), Key("PageDown", "")}
    \cup {Mouse(kind, layout(FALSE).messages.x, layout(FALSE).messages.y) :
             kind \in {"ScrollUp", "ScrollDown"}}

\* The loop with nothing arriving: draws of any size and scrolling between them.
NextScroll ==
    \/ DrainChatsEnd \/ DrainMessagesEnd \/ DrainImagesEnd
    \/ \E total_lines \in LineCounts, viewport_height \in LineCounts :
          DrawLines(total_lines, viewport_height)
    \/ PollTimeout
    \/ \E ev \in ScrollEvents :
          /\ app.scroll_offset <= ScrollCap \/ app.scroll_offset >= U16Max - ScrollCap
          /\ PollEvent(ev)
SpecScroll == Init /\ [][NextScroll]_vars

\* C4 (scroll clamp): after the scroll recomputation of a draw, for every
\* line count, viewport height, snap-to-bottom flag and prior offset,
\* 0 <= scroll_offset <= max_scroll.
C4_ScrollClamp ==
    pc = "poll" => 0 <= app.scroll_offset /\ app.scroll_offset <= app.max_scroll

\* A draw has clamped an unsnapped view to a positive maximum.
C4_Witness ==
    /\ pc = "poll" /\ ~app.snap_to_bottom
    /\ app.max_scroll > 0
    /\ app.scroll_offset = app.max_scroll


\* ------------------------------------------------------------- ImageCache
CacheUrls == {"u1", "u2", "u3", "u4"}
CacheImages == {"rgb8 1x1", "rgb8 2x2"}

\* An ImageCache of any capacity up to MaxCapacity, beside an App just built.
InitCache ==
    /\ app = AppNew
    /\ rx = << >> /\ rx_chats = << >> /\ rx_image = << >>
    /\ tasks = EmptyBag
    /\ pc = "drain_chats"
    /\ cache \in {ImageCacheNew(max_size) : max_size \in 0..MaxCapacity}
    /\ rx_status = << >>
    /\ frame = NoFrame

\* cache.insert(url, image)
CacheInsert(url, image) ==
    /\ cache' \in {ImageCacheInsert(cache, key, url, image) : key \in first_keys(cache)}
    /\ UNCHANGED <<app, rx, rx_chats, rx_image, tasks, pc, rx_status, frame>>

\* cache.clear()
CacheClear ==
    /\ cache' = ImageCacheClear(cache)
    /\ UNCHANGED <<app, rx, rx_chats, rx_image, tasks, pc, rx_status, frame>>

NextCache ==
    \/ \E url \in CacheUrls, image \in CacheImages : CacheInsert(url, image)
    \/ CacheClear
SpecCache == InitCache /\ [][NextCache]_vars

\* C5 (cache bound): for every capacity, 0 and 1 included, and after any
\* sequence of inserts, the number of cached entries is at most the capacity.
C5_CacheBound == Cardinality(DOMAIN cache.images) <= cache.max_size


\* ------------------------------------------------------------- image viewer
\* Chat navigation downwards, the image viewer's keys and scrolling up.
ViewerEvents ==
    {Key("Down", ""), Key("Esc", ""), Key("Left", ""), Key("Right", ""),
     Key("Char", "v"), Key("Char", "q"), Key("PageUp", "")}

\* The loop with the viewer in use: image downloads run beside the poller and
\* the message fetches.  As in Next, a task's send is scheduled at the
\* try_recv of its channel.
NextViewer ==
    \/ DrainChats \/ DrainChatsEnd
    \/ DrainMessages \/ DrainMessagesEnd
    \/ DrainImages \/ DrainImagesEnd
    \/ Draw
    \/ PollTimeout
    \/ \E ev \in ViewerEvents : PollEvent(ev)
    \/ pc = "drain_chats" /\ PollChats
    \/ pc = "drain_messages" /\ FetchMessages
    \/ pc = "drain_images" /\ DownloadImage
SpecViewer == Init /\ [][NextViewer]_vars

\* The viewer is open on this url.
Showing(url) == app.viewing_image # None /\ app.viewing_image[1].url = url

\* C6: an image result taken off the image channel while the viewer is closed
\* or showing another url leaves the loading flag, the prepared protocol and
\* the error slot as they were.
C6_ImageResultForViewedUrl ==
    [][TakesImage /\ ~Showing(Head(rx_image).url)
         => /\ app'.loading_image = app.loading_image
            /\ app'.current_image_protocol = app.current_image_protocol
            /\ app'.image_error = app.image_error]_vars

\* The viewer is open and loading one image while the result for another is
\* about to be taken.
C6_Witness ==
    /\ pc = "drain_images" /\ rx_image # << >>
    /\ app.viewing_image # None /\ app.loading_image
    /\ app.viewing_image[1].url # Head(rx_image).url

\* A result is about to be taken after the viewer was closed.
C6_WitnessClosed ==
    /\ pc = "drain_images" /\ rx_image # << >>
    /\ app.viewing_image = None

\* Same length and same last message id, or both lists empty.
SameLengthAndLast(current, new) ==
    /\ Len(current) = Len(new)
    /\ current # << >> => current[Len(current)].id = new[Len(new)].id

\* C8 (no-op poll short-circuit): when a snapshot tagged with the selected
\* index has the length and the last message id of the current list (or both
\* are empty), the merge leaves the message list, the viewable-image list,
\* the selected image index and the snap-to-bottom flag unchanged; otherwise
\* the list is replaced and snap-to-bottom is set.
C8_NoOpPoll ==
    [][TakesMessage /\ Head(rx).chat_index = app.selected_index
         => IF SameLengthAndLast(app.messages, Head(rx).messages)
            THEN /\ app'.messages = app.messages
                 /\ app'.viewable_images = app.viewable_images
                 /\ app'.selected_image_index = app.selected_image_index
                 /\ app'.snap_to_bottom = app.snap_to_bottom
            ELSE /\ app'.messages = Head(rx).messages
                 /\ app'.snap_to_bottom]_vars

\* A no-op poll arrives for a scrolled-up list whose second image is selected.
C8_Witness ==
    /\ pc = "drain_messages" /\ rx # << >>
    /\ Head(rx).chat_index = app.selected_index
    /\ app.messages # << >>
    /\ SameLengthAndLast(app.messages, Head(rx).messages)
    /\ ~app.snap_to_bottom
    /\ app.selected_image_index > 0

\* A snapshot of another length arrives for the list on display.
C8_WitnessReplace ==
    /\ pc = "drain_messages" /\ rx # << >>
    /\ Head(rx).chat_index = app.selected_index
    /\ app.messages # << >>
    /\ ~SameLengthAndLast(app.messages, Head(rx).messages)


\* ------------------------------------------------------------- progress
\* Keys that open the viewer (which starts a download), close it and quit.
\* Fetches are started by the chat merges.
LiveEvents == {Key("Char", "v"), Key("Esc", ""), Key("Char", "q")}

\* One step of run_app's own thread.
LoopStep ==
    \/ DrainChats \/ DrainChatsEnd
    \/ DrainMessages \/ DrainMessagesEnd
    \/ DrainImages \/ DrainImagesEnd
    \/ Draw
    \/ PollTimeout
    \/ \E ev \in LiveEvents : PollEvent(ev)

\* The poller finds the chats in either order, or fails.
LivePollChats ==
    \E res \in {ServiceErr} \cup {Ok(chats) : chats \in {c \in ChatLists : Len(c) = MaxChats}} :
        PollChatsResult(res)

\* A fetch finds the chat's two messages, or fails.
LiveFetchMessages ==
    \E t \in BagToSet(tasks) :
        \E res \in {ServiceErr, Ok(<< Msg(t.chat_id, 2), Msg(t.chat_id, 1) >>)} :
            FetchMessagesResult(t, res)

\* The tasks send whenever they are ready, wherever the loop is.
NextLive == LoopStep \/ LivePollChats \/ LiveFetchMessages \/ DownloadImage

\* run_app's thread keeps running while it has a step to take (it never
\* awaits: try_recv and the timed event::poll both return); the tokio tasks
\* get no such promise, a request may hang.
FairSpec == Init /\ [][NextLive]_vars /\ WF_vars(LoopStep)

\* C9: as long as the loop keeps ticking, every result put on the chat,
\* message or image channel is eventually taken off it; a drain is left only
\* with its channel empty, and on an empty channel it is left at once rather
\* than waited in.
C9_ResultsConsumed ==
    /\ ([]<>(pc = "poll")) => /\ (rx_chats # << >>) ~> (rx_chats = << >>)
                              /\ (rx # << >>) ~> (rx = << >>)
                              /\ (rx_image # << >>) ~> (rx_image = << >>)
    /\ [][/\ pc = "drain_chats" /\ pc' # "drain_chats" => rx_chats = << >>
          /\ pc = "drain_messages" /\ pc' # "drain_messages" => rx = << >>
          /\ pc = "drain_images" /\ pc' # "drain_images" => rx_image = << >>]_vars
    /\ [](/\ pc = "drain_chats" /\ rx_chats = << >> => ENABLED DrainChatsEnd
          /\ pc = "drain_messages" /\ rx = << >> => ENABLED DrainMessagesEnd
          /\ pc = "drain_images" /\ rx_image = << >> => ENABLED DrainImagesEnd)

\* Results are pending on all three channels when a tick's drain begins.
C9_Witness ==
    /\ pc = "drain_chats"
    /\ rx_chats # << >> /\ rx # << >> /\ rx_image # << >>


\* ------------------------------------------------------------- viewer failures
\* The urls an image of ServerMessages can be viewed under.
ViewerUrls == {"u1", "u2", "u4"}

\* The viewer waits for this url, and neither a download of it is running nor
\* a result for it pending: its download has ended without sending.
Orphaned(url) ==
    /\ Showing(url) /\ app.loading_image
    /\ \A t \in BagToSet(tasks) : ~(t.kind = "image" /\ t.url = url)
    /\ \A i \in 1..Len(rx_image) : rx_image[i].url # url

\* C11: when the download of the image shown in the viewer fails, the viewer
\* reaches the Failed state (loading flag cleared, error slot set), unless it
\* is closed or moved to another image first.
C11_DownloadFailureSurfaced ==
    \A url \in ViewerUrls :
        Orphaned(url) ~> (~Showing(url) \/ (~app.loading_image /\ app.image_error # None))

\* C12: when the bytes taken off the image channel for the url shown in the
\* viewer do not decode, the loading flag is cleared and the error slot is set.
C12_DecodeFailureSurfaced ==
    [][TakesImage /\ Showing(Head(rx_image).url)
         /\ ~load_from_memory_ok(Head(rx_image).bytes)
         => ~app'.loading_image /\ app'.image_error # None]_vars


\* ------------------------------------------------------------- compose mode
\* Compose keys, scrolling up, and chat navigation by key, click and wheel.
ComposeEvents ==
    {Key("Char", "i"), Key("Char", "x"), Key("Enter", ""), Key("Esc", ""),
     Key("Backspace", ""), Key("PageUp", ""), Key("Down", ""), Key("Up", "")}
    \cup {Mouse(kind, layout(FALSE).chat_list.x, y) :
             kind \in {"DownLeft", "ScrollUp", "ScrollDown"},
             y \in {layout(FALSE).chat_list.y + 1, layout(FALSE).chat_list.y + 2}}

\* The loop with messages being composed and sent.  As in Next, a task's send
\* is scheduled at the try_recv of its channel.
NextCompose ==
    \/ DrainChats \/ DrainChatsEnd
    \/ DrainMessages \/ DrainMessagesEnd
    \/ DrainImagesEnd
    \/ Draw
    \/ PollTimeout
    \/ \E ev \in ComposeEvents : PollEvent(ev)
    \/ pc = "drain_chats" /\ PollChats
    \/ pc = "drain_chats" /\ SendRefresh
    \/ pc = "drain_messages" /\ FetchMessages
    \/ pc = "drain_messages" /\ SendMessage
SpecCompose == Init /\ [][NextCompose]_vars

\* The step of run_app that handles one event.
HandlesEvent == pc = "poll" /\ pc' = "drain_chats"

\* The step spawned a send task.
SpawnsSend ==
    \E t \in BagToSet(tasks') :
        t.kind = "send" /\ t.stage = "send" /\ CopiesIn(t, tasks') > CopiesIn(t, tasks)

\* C13: when an event changes the selected chat, and when a non-empty message
\* is sent from compose mode with a chat selected, snap-to-bottom is true
\* right after the event, whatever it was before.
C13_SnapOnSelectOrSend ==
    [][HandlesEvent /\ (app'.selected_index # app.selected_index \/ SpawnsSend)
         => app'.snap_to_bottom]_vars

\* A message is typed in a scrolled-up pane with a chat selected.
C13_Witness ==
    /\ pc = "poll" /\ ~app.snap_to_bottom
    /\ app.input_mode /\ app.input_buffer # << >>
    /\ get_selected_chat(app) # None

\* A scrolled-up pane with another chat to go to.
C13_WitnessSelect ==
    /\ pc = "poll" /\ ~app.snap_to_bottom
    /\ ~app.input_mode /\ Len(app.chats) > 1


\* ------------------------------------------------------------- scroll events
\* The wheel event of this kind, over the messages pane as last drawn.
WheelOverMessages(kind) ==
    {ev \in ScrollEvents : /\ ev.type = "Mouse" /\ ev.kind = kind
                           /\ in_rect(app.messages_area, ev.column, ev.row)}

\* run_app handles PageUp outside the viewer, or the wheel turned up over the
\* messages pane.
ScrollsUp ==
    \/ ~is_viewing_image(app) /\ PollEvent(Key("PageUp", ""))
    \/ \E ev \in WheelOverMessages("ScrollUp") : PollEvent(ev)

\* run_app handles PageDown outside the viewer, or the wheel turned down over
\* the messages pane.
ScrollsDown ==
    \/ ~is_viewing_image(app) /\ PollEvent(Key("PageDown", ""))
    \/ \E ev \in WheelOverMessages("ScrollDown") : PollEvent(ev)

\* C14: an upward scroll of the message pane (PageUp, wheel up over the pane)
\* leaves snap-to-bottom false and does not increase the scroll offset.
C14_ScrollUpUnsnaps ==
    [][ScrollsUp => ~app'.snap_to_bottom /\ app'.scroll_offset <= app.scroll_offset]_vars

\* A snapped pane, drawn, whose offset is smaller than either scroll amount.
C14_Witness ==
    /\ pc = "poll" /\ app.snap_to_bottom
    /\ app.scroll_offset > 0 /\ app.scroll_offset < 3
    /\ app.messages_area.width > 0

\* C15: a downward scroll of the message pane (PageDown, wheel down over the
\* pane) sets snap-to-bottom exactly when the new offset reaches or exceeds
\* max_scroll, and otherwise leaves the flag as it was.
C15_ScrollDownSnaps ==
    [][ScrollsDown
         => app'.snap_to_bottom =
               IF app'.scroll_offset >= app.max_scroll THEN TRUE ELSE app.snap_to_bottom]_vars

\* An unsnapped pane one wheel step short of max_scroll.
C15_Witness ==
    /\ pc = "poll" /\ ~app.snap_to_bottom
    /\ app.scroll_offset + 3 = app.max_scroll
    /\ app.messages_area.width > 0

\* An unsnapped pane that a page down leaves short of max_scroll.
C15_WitnessShort ==
    /\ pc = "poll" /\ ~app.snap_to_bottom
    /\ app.scroll_offset + 10 < app.max_scroll


Cached == DOMAIN cache.images
\* The entries after the step are those before it, less one of them, plus url.
EvictsOneFor(url) == \E k \in Cached : DOMAIN cache'.images = (Cached \ {k}) \cup {url}
\* The entries after the step are those before it plus url.
EvictsNoneFor(url) == DOMAIN cache'.images = Cached \cup {url}

\* C17 as stated, for every capacity: an insert into a cache holding exactly
\* capacity entries removes exactly one entry that was present and then
\* inserts; an insert below capacity removes none.
C17_EvictsOneAtAnyCapacity ==
    [][\A url \in CacheUrls, image \in CacheImages :
          CacheInsert(url, image)
          => /\ Cardinality(Cached) = cache.max_size => EvictsOneFor(url)
             /\ Cardinality(Cached) < cache.max_size => EvictsNoneFor(url)]_vars

\* C17 for capacities of at least 1: an insert into a cache holding exactly
\* capacity entries removes exactly one entry that was present and then
\* inserts; an insert below capacity removes none.
C17_EvictsOneAtCapacity ==
    [][\A url \in CacheUrls, image \in CacheImages :
          CacheInsert(url, image) /\ cache.max_size >= 1
          => /\ Cardinality(Cached) = cache.max_size => EvictsOneFor(url)
             /\ Cardinality(Cached) < cache.max_size => EvictsNoneFor(url)]_vars

\* A full cache of more than one entry.
C17_Witness == cache.max_size >= 2 /\ Cardinality(Cached) = cache.max_size

\* C18: right after insert(url, image), contains(url) is true and get(url)
\* returns the image, whatever the cache held before, a full cache included.
C18_InsertedIsPresent ==
    [][\A url \in CacheUrls, image \in CacheImages :
          CacheInsert(url, image)
          => /\ ImageCacheContains(cache', url)
             /\ ImageCacheGet(cache', url) = Some(image)]_vars

\* A full cache that does not hold every url.
C18_Witness ==
    /\ cache.max_size >= 1 /\ Cardinality(Cached) = cache.max_size
    /\ Cached # CacheUrls


\* ------------------------------------------------------------- chat navigation
\* C19: on a non-empty chat list, next_chat then previous_chat, and
\* previous_chat then next_chat, give back the selected index; next_chat at
\* the last index gives 0 and previous_chat at 0 gives the last index; on an
\* empty list both leave the index as it is.
C19_NextPreviousRoundTrip ==
    IF app.chats # << >>
    THEN /\ previous_chat(next_chat(app)).selected_index = app.selected_index
         /\ next_chat(previous_chat(app)).selected_index = app.selected_index
         /\ app.selected_index = Len(app.chats) - 1 => next_chat(app).selected_index = 0
         /\ app.selected_index = 0
               => previous_chat(app).selected_index = Len(app.chats) - 1
    ELSE /\ next_chat(app).selected_index = app.selected_index
         /\ previous_chat(app).selected_index = app.selected_index

\* The last chat of a longest list is selected by a key just handled.
C19_Witness ==
    /\ pc = "drain_chats" /\ rx_chats = << >>
    /\ Len(app.chats) = MaxChats
    /\ app.selected_index = MaxChats - 1
    /\ app.loading_messages


\* ------------------------------------------------------------- mark as read
\* Marking a chat read is not in the sources at hand; this part follows the
\* specification's description of it: after a chat's messages have been
\* viewed a task calls markRead, retries a failed call within a fixed budget
\* of attempts, and sends a status text when the last attempt fails; run_app
\* takes status texts off a channel of their own and shows them.

\* The retry budget: attempts at markRead for one viewing.
MarkReadBudget == 3

\* The status text of a markRead that failed for good.
MarkReadFailed == Status("Failed to mark chat as read", 0, NoName)

\* The task marking chat_id read, at its attempt-th attempt.
MarkReadTask(chat_id, attempt) ==
    [Task("mark_read", chat_id, 0, "", "call") EXCEPT !.attempt = attempt]

\* mark_read_step that gives up after the first failure.
mark_read_step_once(t, ok) ==
    [retry |-> << >>, status |-> IF ok THEN << >> ELSE << MarkReadFailed >>]

\* What follows one attempt of task t: the retry it makes and the status
\* text it sends.
mark_read_step(t, ok) ==
    IF ok THEN [retry |-> << >>, status |-> << >>]
    ELSE IF t.attempt < MarkReadBudget
    THEN [retry |-> << MarkReadTask(t.chat_id, t.attempt + 1) >>, status |-> << >>]
    ELSE [retry |-> << >>, status |-> << MarkReadFailed >>]

\* The messages of the selected chat have been drawn: mark the chat read,
\* unless that is under way.
MarkReadSpawn ==
    /\ pc = "poll"
    /\ app.messages # << >> /\ ~app.loading_messages
    /\ get_selected_chat(app) # None
    /\ LET id == get_selected_chat(app)[1].id
       IN  /\ \A t \in BagToSet(tasks) : ~(t.kind = "mark_read" /\ t.chat_id = id)
           /\ room_for(<< MarkReadTask(id, 1) >>)
           /\ tasks' = spawn_all(tasks, << MarkReadTask(id, 1) >>)
    /\ UNCHANGED <<app, rx, rx_chats, rx_image, pc, cache, rx_status, frame>>

\* One attempt of the mark-read task t succeeds (ok) or fails.
MarkReadResult(t, ok) ==
    LET r == mark_read_step(t, ok)
    IN  /\ t.kind = "mark_read"
        /\ Len(rx_status) + Len(r.status) <= MaxQueue
        /\ rx_status' = rx_status \o r.status
        /\ tasks' = spawn_all(tasks (-) SetToBag({t}), r.retry)
        /\ UNCHANGED <<app, rx, rx_chats, rx_image, pc, cache, frame>>

MarkRead == \E t \in BagToSet(tasks), ok \in BOOLEAN : MarkReadResult(t, ok)

\* run_app takes a status text off the status channel and shows it.
DrainStatus ==
    /\ pc = "drain_chats"
    /\ rx_status # << >>
    /\ app' = [app EXCEPT !.status = Head(rx_status)]
    /\ rx_status' = Tail(rx_status)
    /\ UNCHANGED <<rx, rx_chats, rx_image, tasks, pc, cache, frame>>

\* The loop with chats being read and marked read.
NextMarkRead ==
    \/ DrainChats \/ DrainChatsEnd
    \/ DrainMessages \/ DrainMessagesEnd
    \/ DrainImagesEnd
    \/ Draw
    \/ PollTimeout
    \/ PollEvent(Key("Down", ""))
    \/ pc = "drain_chats" /\ PollChats
    \/ pc = "drain_messages" /\ FetchMessages
    \/ MarkReadSpawn
    \/ pc = "drain_chats" /\ MarkRead
    \/ DrainStatus
SpecMarkRead == Init /\ [][NextMarkRead]_vars

\* The mark-read tasks running.
MarkReadTasks == {t \in BagToSet(tasks) : t.kind = "mark_read"}

TaskEvents ==
    {Key("Char", "i"), Key("Char", "x"), Key("Enter", ""), Key("Char", "v"),
     Key("Esc", "")}

\* The loop with every kind of request in flight: message fetches, sends and
\* image downloads.  As in Next, a task's send is scheduled at the try_recv
\* of its channel.
NextTasks ==
    \/ DrainChats \/ DrainChatsEnd
    \/ DrainMessages \/ DrainMessagesEnd
    \/ DrainImages \/ DrainImagesEnd
    \/ Draw
    \/ PollTimeout
    \/ \E ev \in TaskEvents : PollEvent(ev)
    \/ pc = "drain_chats" /\ SendRefresh
    \/ pc = "drain_messages" /\ FetchMessages
    \/ pc = "drain_messages" /\ SendMessage
    \/ pc = "drain_images" /\ DownloadImage
SpecTasks == Init /\ [][NextTasks]_vars

\* A step of a background task that sends nothing: its call, or the token
\* before it, failed.
SilentTaskStep ==
    /\ pc' = pc
    /\ tasks' # tasks
    /\ UNCHANGED <<app, rx, rx_chats, rx_image>>

\* Task t is gone after the step and no task was started.
TaskEnds(t) == tasks' = tasks (-) SetToBag({t})

\* Task t has sent the message and goes on to the chat refresh.
TaskMovesOn(t) ==
    /\ t.kind = "send" /\ t.stage = "send"
    /\ tasks' = (tasks (-) SetToBag({t})) (+) SetToBag({[t EXCEPT !.stage = "refresh"]})

\* C21: a message fetch, a message send and an image download make one
\* attempt: the step in which a task's call fails ends that task and leaves no
\* task behind to make the call again (a send task whose message was sent but
\* whose reload failed goes on to the chat refresh, a different call), and no
\* task is ever on a second attempt.
C21_OneAttempt ==
    /\ [][SilentTaskStep =>
            \E t \in BagToSet(tasks) :
                /\ t.kind \in {"fetch", "send", "image"}
                /\ TaskEnds(t) \/ TaskMovesOn(t)]_vars
    /\ [](\A t \in BagToSet(tasks) : t.attempt = 0)

\* The first fetch has failed: the pane is loading, no task runs and nothing
\* is on the message channel.
C21_Witness ==
    /\ app.loading_messages /\ app.messages = << >>
    /\ tasks = EmptyBag /\ rx = << >> /\ rx_chats = << >>

\* ------------------------------------------------------------- rendering
\* Bounds of the rendered inputs: the pieces of a plain body, the pieces of a
\* body with markup, the widest pane area, the messages of a short history
\* and those of a long one.
MaxPieces == 5
MaxMarkup == 3
MaxAreaWidth == 9
MaxShown == 3
MaxHistory == 102

RECURSIVE Concats(_, _)
\* The strings made of at most n pieces.
Concats(pieces, n) ==
    IF n = 0 THEN {<< >>}
    ELSE LET shorter == Concats(pieces, n - 1)
         IN  shorter \cup {t \o x : t \in shorter, x \in pieces}

\* Plain text: two words, a wide glyph of three bytes, a space and a newline.
TextPieces ==
    {<< "a" >>, << "b", "c", "d", "e" >>, << "cjk" >>, << " " >>, << "\n" >>}

\* Markup: reference tags whole and in parts, block and inline tags,
\* entities, an emoji tag in parts, between a word and a space.
MarkupPieces ==
    {<< "a" >>, << " " >>, AttachmentOpen, << ">" >>, << "/", ">" >>, AttachmentClose,
     << "<", "p", ">" >>, << "<", "/", "p", ">" >>, << "<", "b", ">" >>,
     << "&", "n", "b", "s", "p", ";" >>, << "&", "l", "t", ";" >>,
     << "&", "g", "t", ";" >>,
     EmojiOpen, << " " >> \o AltOpen \o << "x", "\"" >>}

AreaWidths == 2..MaxAreaWidth

Senders == {None, From("Bob"), From("Me"), From("Unknown")}
Stamps == {Stamp(1, 10, 0), Stamp(1, 10, 59), Stamp(1, 11, 0), Stamp(2, 10, 0), NoStamp}

\* One message from Bob or from the user, with this body.
Single(from, body) == << Message(<<1, 1>>, Stamp(1, 10, 0), from, body, << >>) >>

\* Histories of up to MaxShown messages of every sender and time.
RECURSIVE Histories(_)
Histories(n) ==
    IF n = 0 THEN {<< >>}
    ELSE LET shorter == Histories(n - 1)
         IN  shorter \cup
             {Append(h, Message(<<1, n>>, stamp, from, Body(<< "a" >>), << >>)) :
                 h \in {t \in shorter : Len(t) = n - 1}, from \in Senders, stamp \in Stamps}

\* A history of n messages of Bob's.
LongHistory(n) ==
    [i \in 1..n |-> Message(<<1, i>>, Stamp(1, 10, 0), From("Bob"), Body(<< "a" >>), << >>)]

\* The messages pane as draw renders it for these messages, this user and a
\* pane area this wide.
RenderPane(messages, me, area_width) ==
    /\ frame' = [drawn |-> TRUE, messages |-> messages, me |-> me,
                 area_width |-> area_width,
                 blocks |-> rendered_messages(messages, me, area_width)]
    /\ UNCHANGED <<app, rx, rx_chats, rx_image, tasks, pc, cache, rx_status>>

InitRender ==
    /\ app = AppNew
    /\ rx = << >> /\ rx_chats = << >> /\ rx_image = << >> /\ rx_status = << >>
    /\ tasks = EmptyBag
    /\ pc = "draw"
    /\ cache = ImageCacheNew(0)
    /\ frame = NoFrame

TextBodies == Concats(TextPieces, MaxPieces)
MarkupBodies == Concats(MarkupPieces, MaxMarkup)
ShortHistories == Histories(MaxShown)

\* One draw: of one message of plain text at every width, of one message
\* with markup or without a body, of a short history or of a long one.
NextRender ==
    /\ ~frame.drawn
    /\ \/ \E content \in TextBodies, from \in {From("Bob"), From("Me")},
             area_width \in AreaWidths :
             RenderPane(Single(from, Body(content)), Some("Me"), area_width)
       \/ \E content \in MarkupBodies :
             RenderPane(Single(From("Bob"), Body(content)), Some("Me"), MaxAreaWidth)
       \/ \E body \in {None, Some([content |-> None])}, me \in {None, Some("Me")} :
             RenderPane(Single(From("Me"), body), me, MaxAreaWidth)
       \/ \E messages \in ShortHistories : RenderPane(messages, Some("Me"), MaxAreaWidth)
       \/ \E n \in (MaxHistory - 3)..MaxHistory :
             RenderPane(LongHistory(n), Some("Me"), MaxAreaWidth)
SpecRender == InitRender /\ [][NextRender]_vars

\* ------------------------------------------------------------- C22, C23
\* The wrap limit of the frame: 90% of the usable width of its pane area.
frame_limit == max_line_width(saturating_sub(frame.area_width, 3))

\* The texts of the body lines of the frame, block after block.
RECURSIVE body_texts(_)
body_texts(blocks) ==
    IF blocks = << >> THEN << >>
    ELSE [j \in 1..Len(Head(blocks).body) |-> Head(blocks).body[j].text]
             \o body_texts(Tail(blocks))

single_word(text) == \A k \in 1..Len(text) : ~is_whitespace(text[k])

\* C22: in every rendered frame, whatever the body and the pane width, every
\* body line the wrapping produced is at most floor(width * 0.9) columns
\* wide, unless the line is one single word that is itself wider than that.
C22_WrapInvariant ==
    frame.drawn =>
        \A j \in 1..Len(body_texts(frame.blocks)) :
            LET text == body_texts(frame.blocks)[j]
            IN  \/ width(text) <= frame_limit
                \/ single_word(text) /\ width(text) > frame_limit

\* Wrapping has broken a text of several words: a line of two words fills
\* the limit to the column, a line with a wide glyph stays below it, and a
\* single word wider than the limit has a line of its own.
C22_Witness ==
    /\ frame.drawn
    /\ \E j \in 1..Len(body_texts(frame.blocks)) :
           LET text == body_texts(frame.blocks)[j]
           IN  ~single_word(text) /\ width(text) = frame_limit
    /\ \E j \in 1..Len(body_texts(frame.blocks)) :
           LET text == body_texts(frame.blocks)[j]
           IN  /\ single_word(text) /\ width(text) > frame_limit

\* C23: a body of one word wider than the wrap limit is rendered as exactly
\* one body line, the whole word, with no empty line before or after it.
C23_LongWordOneLine ==
    (/\ frame.drawn /\ Len(frame.messages) = 1
     /\ frame.blocks[1].text.final_content # << >>
     /\ frame.blocks[1].text.final_content = content_of(frame.messages[1])
     /\ single_word(content_of(frame.messages[1]))
     /\ width(content_of(frame.messages[1])) > frame_limit)
        => body_texts(frame.blocks) = << content_of(frame.messages[1]) >>

\* ------------------------------------------------------------- C24
\* The message of the frame that a block renders.
rendered_message(block) ==
    CHOOSE m \in {frame.messages[k] : k \in 1..Len(frame.messages)} : m.id = block.id

\* Both messages carry a timestamp that parses, in the same calendar hour.
same_calendar_hour(m, p) ==
    /\ m.created_date_time.rfc3339 /\ p.created_date_time.rfc3339
    /\ m.created_date_time.day = p.created_date_time.day
    /\ m.created_date_time.hour = p.created_date_time.hour

\* Both messages carry a timestamp that parses, in different calendar hours.
other_calendar_hour(m, p) ==
    /\ m.created_date_time.rfc3339 /\ p.created_date_time.rfc3339
    /\ \/ m.created_date_time.day # p.created_date_time.day
       \/ m.created_date_time.hour # p.created_date_time.hour

\* C24: the first rendered message has a header and no blank line before
\* it.  A later message of the same sender as the message rendered before it
\* and of the same calendar hour has neither header nor blank line; a later
\* message of another sender, or of another calendar hour, has a header, and
\* the blank separator line before it.
C24_HeaderSuppression ==
    frame.drawn =>
        \A i \in 1..Len(frame.blocks) :
            LET block == frame.blocks[i]
                m == rendered_message(block)
            IN  IF i = 1 THEN block.header # None /\ ~block.blank
                ELSE LET p == rendered_message(frame.blocks[i - 1])
                         same == sender_name(m) = sender_name(p)
                     IN  /\ same /\ same_calendar_hour(m, p)
                               => block.header = None /\ ~block.blank
                         /\ ~same \/ other_calendar_hour(m, p)
                               => block.header # None /\ block.blank

\* Three messages of one sender: the second a minute after the first, with
\* no header, the third in the next hour, with one.
C24_Witness ==
    /\ frame.drawn /\ Len(frame.blocks) = 3
    /\ \A i \in 2..3 : sender_name(rendered_message(frame.blocks[i]))
                           = sender_name(rendered_message(frame.blocks[1]))
    /\ rendered_message(frame.blocks[2]).created_date_time
           # rendered_message(frame.blocks[1]).created_date_time
    /\ frame.blocks[2].header = None /\ ~frame.blocks[2].blank
    /\ frame.blocks[3].header # None /\ frame.blocks[3].blank

\* ------------------------------------------------------------- C25
\* C25: a rendered message whose content is empty once normalized, its body
\* absent, empty, or nothing but markup and whitespace, has exactly one body
\* line, and that line is empty.
C25_EmptyContentOneLine ==
    frame.drawn =>
        \A i \in 1..Len(frame.blocks) :
            frame.blocks[i].text.final_content = << >>
                => /\ Len(frame.blocks[i].body) = 1
                   /\ frame.blocks[i].body[1].text = << >>

\* A body of markup and whitespace only, with a reference tag in it, has
\* been rendered as one empty line.
C25_Witness ==
    /\ frame.drawn /\ Len(frame.blocks) = 1
    /\ find(content_of(frame.messages[1]), AttachmentOpen) # None
    /\ \E k \in 1..Len(content_of(frame.messages[1])) :
           content_of(frame.messages[1])[k] = " "
    /\ frame.blocks[1].text.final_content = << >>
    /\ Len(frame.blocks[1].body) = 1 /\ frame.blocks[1].body[1].text = << >>

\* ------------------------------------------------------------- C26
\* The first `<attachment` of the content is not closed by any `>`.
unterminated_attachment(content) ==
    /\ find(content, AttachmentOpen) # None
    /\ find(drop(content, find(content, AttachmentOpen)[1]), << ">" >>) = None

\* C26: a body with an unterminated `<attachment` opener leaves the
\* stripping of reference tags as it entered it, the text before the opener
\* appearing once.
C26_MalformedPassedThrough ==
    frame.drawn =>
        \A i \in 1..Len(frame.blocks) :
            unterminated_attachment(content_of(rendered_message(frame.blocks[i])))
                => frame.blocks[i].text.attachment_removed
                       = content_of(rendered_message(frame.blocks[i]))

\* ------------------------------------------------------------- C27
\* C27: whatever the length of the message list, the frame renders its first
\* 100 entries, all of it if it is shorter, and renders them last to first.
C27_NewestHundredReversed ==
    frame.drawn =>
        /\ Len(frame.blocks) = Min(Len(frame.messages), 100)
        /\ \A i \in 1..Len(frame.blocks) :
               frame.blocks[i].id = frame.messages[Len(frame.blocks) + 1 - i].id

\* A list of more than 100 messages has been rendered as 100 blocks, from
\* its hundredth entry to its first.
C27_Witness ==
    /\ frame.drawn /\ Len(frame.messages) > 100
    /\ Len(frame.blocks) = 100
    /\ frame.blocks[1].id = frame.messages[100].id
    /\ frame.blocks[100].id = frame.messages[1].id

\* ------------------------------------------------------------- C28
\* A draw of total_lines lines in viewport_height rows with the snap set.
SnappedDraw(total_lines, viewport_height) ==
    app.snap_to_bottom /\ DrawLines(total_lines, viewport_height)

\* C28 as claimed: when the snap is set, for every T and H the draw leaves
\* scroll_offset = min(max(0, T - H) + 5, T - 1) and max_scroll at least
\* that offset.
C28_SnapOffsetAnyHeight ==
    [][\A T \in LineCounts, H \in LineCounts :
          SnappedDraw(T, H) =>
              /\ app'.scroll_offset = Min(Max(0, T - H) + 5, T - 1)
              /\ app'.max_scroll >= app'.scroll_offset]_vars

\* C28: when the snap is set, a draw of T lines in H rows leaves
\* scroll_offset = min(T - H + 5, T - 1) if T > H and 0 if the lines fit, and
\* max_scroll at least that offset.
C28_SnapOffset ==
    [][\A T \in LineCounts, H \in LineCounts :
          SnappedDraw(T, H) =>
              /\ app'.scroll_offset = IF T > H THEN Min(T - H + 5, T - 1) ELSE 0
              /\ app'.max_scroll >= app'.scroll_offset]_vars

\* A snapped draw has put the offset past T - H, on the last line, and
\* raised max_scroll to it.
C28_Witness ==
    /\ pc = "poll" /\ app.snap_to_bottom
    /\ app.scroll_offset = MaxLines - 1 /\ app.max_scroll = app.scroll_offset

\* ------------------------------------------------------------- C29
\* C29: whenever the messages pane shows a message list, every message of
\* it was fetched for the chat that is selected.
C29_MessagesOfSelectedChat ==
    (~app.loading_messages /\ app.messages # << >> /\ get_selected_chat(app) # None)
        => \A i \in 1..Len(app.messages) :
               app.messages[i].id[1] = get_selected_chat(app)[1].id

\* ------------------------------------------------------------- C30
\* The selected chat is at 0-based index in the snapshot at the head of the
\* chat channel.
SelectedFoundAt(index) ==
    /\ get_selected_chat(app) # None
    /\ index + 1 \in 1..Len(Head(rx_chats).chats)
    /\ Head(rx_chats).chats[index + 1].id = get_selected_chat(app)[1].id

\* C30: a merge of a chat snapshot in which the selected chat's id is found
\* spawns exactly one task, a message fetch for that id tagged with the
\* chat's index in the snapshot, whether or not index and list have changed.
C30_MergeRefetches ==
    [][\A index \in 0..(MaxChats - 1) :
          (TakesChats /\ SelectedFoundAt(index)) =>
              tasks' = tasks (+) SetToBag({FetchTask(get_selected_chat(app)[1].id, index)})]_vars

\* The selected chat's messages are on display, the chat snapshots have been
\* merged, and a fetch for that chat at its index is running: the one a merge
\* has issued.
C30_Witness ==
    /\ pc = "drain_chats" /\ rx_chats = << >>
    /\ ~app.loading_messages /\ app.messages # << >>
    /\ get_selected_chat(app) # None
    /\ tasks = SetToBag({FetchTask(get_selected_chat(app)[1].id, app.selected_index)})

\* ------------------------------------------------------------- chat merges
\* main() up to run_app's loop, with a chat list of up to MaxListed chats.
InitListed ==
    /\ \E chats \in ListedChats, user \in Profiles :
          LET a1 == set_chats(AppNew, chats)
              a2 == IF user # None THEN set_current_user(a1, user[1]) ELSE a1
              chat == get_selected_chat(a2)
          IN  IF chat # None
              THEN /\ app = set_loading_messages(a2, TRUE)
                   /\ tasks = SetToBag({FetchTask(chat[1].id, a2.selected_index)})
              ELSE /\ app = a2
                   /\ tasks = EmptyBag
    /\ rx = << >>
    /\ rx_chats = << >>
    /\ rx_image = << >>
    /\ pc = "drain_chats"
    /\ cache = ImageCacheNew(0)
    /\ rx_status = << >>
    /\ frame = NoFrame

\* A tick of the chat refresh task that succeeds, with any of those lists.
PollListedChats == \E chats \in ListedChats : PollChatsResult(Ok(chats))

\* Moving through the chat list by keys.
ListKeys == {Key("Char", "j"), Key("Char", "k")}

\* Chat snapshots that grow, shrink and reorder the list while the user moves
\* through it and message fetches complete.
NextListed ==
    \/ DrainChats \/ DrainChatsEnd
    \/ DrainMessages \/ DrainMessagesEnd
    \/ DrainImagesEnd
    \/ Draw
    \/ PollTimeout
    \/ \E ev \in ListKeys : PollEvent(ev)
    \/ pc = "drain_chats" /\ PollListedChats
    \/ pc = "drain_messages" /\ FetchMessages
SpecListed == InitListed /\ [][NextListed]_vars

\* ------------------------------------------------------------- C31
\* A chat is selected and its id is not in the snapshot at the head of the
\* chat channel.
SelectedAbsent ==
    /\ get_selected_chat(app) # None
    /\ \A i \in 1..Len(Head(rx_chats).chats) :
           Head(rx_chats).chats[i].id # get_selected_chat(app)[1].id

\* C31: a merge of a chat snapshot that does not hold the selected chat's id
\* leaves the selected index as it is if it is below the new length, puts it
\* on the new last index if it is not, on 0 if the new list is empty, and
\* spawns no task.
C31_AbsentClamps ==
    [][(TakesChats /\ SelectedAbsent) =>
          /\ app'.selected_index =
                 IF app.selected_index < Len(Head(rx_chats).chats)
                 THEN app.selected_index
                 ELSE IF Head(rx_chats).chats = << >> THEN 0
                      ELSE Len(Head(rx_chats).chats) - 1
          /\ app'.chats = Head(rx_chats).chats
          /\ tasks' = tasks]_vars

\* The third chat was selected and a list of two other chats has been merged:
\* the index is on the last of them and no fetch runs.
C31_Witness ==
    /\ pc = "drain_chats" /\ rx_chats = << >>
    /\ Len(app.chats) = 2 /\ app.selected_index = 1
    /\ tasks = EmptyBag
    /\ app.messages # << >>
    /\ \A i \in 1..Len(app.messages) :
           \A k \in 1..Len(app.chats) : app.messages[i].id[1] # app.chats[k].id

\* ------------------------------------------------------------- C32
\* The attachments of the message list that are images with a url to load:
\* message position and attachment position.
ImageSlots(messages) ==
    {s \in UNION {{<<i, j>> : j \in 1..Len(messages[i].attachments)} :
                     i \in 1..Len(messages)} :
        LET attachment == messages[s[1]].attachments[s[2]]
        IN  /\ is_image(attachment)
            /\ attachment.thumbnail_url # None \/ attachment.content_url # None}

\* Slot s comes before slot t: in an earlier message, or earlier in the same.
SlotBefore(s, t) == s[1] < t[1] \/ (s[1] = t[1] /\ s[2] < t[2])

\* C32: in every state the viewable-image list has one entry for each image
\* attachment with a url of the current message list and no other, in
\* message order then attachment order, each with the thumbnail url if there
\* is one and the content url otherwise.
C32_ViewableIsProjection ==
    LET slots == ImageSlots(app.messages)
    IN  /\ Len(app.viewable_images) = Cardinality(slots)
        /\ \A s \in slots :
               LET attachment == app.messages[s[1]].attachments[s[2]]
                   k == 1 + Cardinality({t \in slots : SlotBefore(t, s)})
               IN  app.viewable_images[k].url =
                       IF attachment.thumbnail_url # None
                       THEN attachment.thumbnail_url[1]
                       ELSE attachment.content_url[1]

\* ------------------------------------------------------------- C33
\* The step in which an event of the user's moves the selection onto a chat.
SelectsChat ==
    /\ HandlesEvent
    /\ app'.selected_index # app.selected_index
    /\ get_selected_chat(app') # None

\* C33: the loading flag is false once the snapshot fetched for a chat the
\* user selected has been drained with that chat still selected, an empty
\* snapshot included: the selecting step itself leaves the flag false, with
\* the fetch spawned, and no later step, a drain of any snapshot among them,
\* sets it.
C33_LoadedAfterSelection ==
    /\ [][SelectsChat =>
             /\ ~app'.loading_messages
             /\ \E t \in BagToSet(tasks') :
                    /\ t = FetchTask(get_selected_chat(app')[1].id, app'.selected_index)
                    /\ CopiesIn(t, tasks') = CopiesIn(t, tasks) + 1]_vars
    /\ [][~app.loading_messages => ~app'.loading_messages]_vars

\* The user has selected the second chat and the drain is about to take the
\* empty snapshot fetched for it: the flag is false before and stays so.
C33_Witness ==
    /\ pc = "drain_messages" /\ rx # << >>
    /\ app.selected_index = 1
    /\ Head(rx).chat_index = app.selected_index /\ Head(rx).messages = << >>
    /\ app.messages = << >> /\ ~app.loading_messages

\* ------------------------------------------------------------- C34
\* C34: while the image viewer is open, the image on view is the entry of the
\* viewable-image list at the selected image index.
C34_ViewedIsSelected ==
    app.viewing_image # None =>
        /\ app.selected_image_index < Len(app.viewable_images)
        /\ app.viewable_images[app.selected_image_index + 1].url = app.viewing_image[1].url

\* ------------------------------------------------------------- C35
\* The image a key asks for, if any: v outside the viewer and compose mode
\* asks for the selected one, Right or l in the viewer for the next, Left or
\* h for the one before, wrapping round.
RequestedImage(ev) ==
    LET images == app.viewable_images
        index == app.selected_image_index
        char(c) == ev.code = "Char" /\ ev.c = c
    IN  IF ev.type # "Key" \/ images = << >> THEN None
        ELSE IF app.viewing_image = None
        THEN IF char("v") /\ ~app.input_mode /\ index < Len(images)
             THEN Some(images[index + 1]) ELSE None
        ELSE IF ev.code = "Right" \/ char("l")
        THEN Some(images[((index + 1) % Len(images)) + 1])
        ELSE IF ev.code = "Left" \/ char("h")
        THEN Some(images[(IF index > 0 THEN index - 1 ELSE Len(images) - 1) + 1])
        ELSE None

\* C35: an event that asks for an image sets the loading flag, clears the
\* viewer's error and prepared protocol, puts that image on view and spawns
\* exactly one task, the download of its url.
C35_ViewRequestStartsDownload ==
    [][\A ev \in ViewerEvents :
          (PollEvent(ev) /\ RequestedImage(ev) # None) =>
              /\ app'.loading_image
              /\ app'.image_error = None
              /\ app'.current_image_protocol = None
              /\ app'.viewing_image = RequestedImage(ev)
              /\ tasks' = tasks (+) SetToBag({ImageTask(RequestedImage(ev)[1].url)})]_vars

\* The viewer has moved to the second image: it is loading, with no protocol
\* and its download running.
C35_Witness ==
    /\ pc = "drain_chats"
    /\ app.viewing_image # None /\ app.selected_image_index = 1
    /\ app.viewing_image[1] = app.viewable_images[2]
    /\ app.loading_image /\ app.current_image_protocol = None
    /\ CopiesIn(ImageTask(app.viewing_image[1].url), tasks) = 1


\* ---------------------------------------------------------------------- C36
\* C36: in every reachable state a non-empty compose buffer implies compose
\* mode; whenever an event flips the mode the buffer is empty afterwards, and
\* no event received outside compose mode changes the buffer unless it
\* enters compose mode (which empties it).
C36_BufferOnlyInComposeMode ==
    /\ [](app.input_buffer # << >> => app.input_mode)
    /\ [][\A ev \in ComposeEvents : PollEvent(ev) =>
             /\ app'.input_mode # app.input_mode => app'.input_buffer = << >>
             /\ ~app.input_mode /\ ~app'.input_mode
                   => app'.input_buffer = app.input_buffer]_vars

\* Text has been typed in compose mode and sent: the mode is off again, the
\* buffer is empty and the send is running.
C36_Witness ==
    /\ ~app.input_mode
    /\ app.input_buffer = << >>
    /\ \E t \in BagToSet(tasks) : t.kind = "send"


\* ---------------------------------------------------------------------- C37
\* The keys a terminal can deliver while the viewer is open: those of
\* ViewerEvents and the other keys run_app binds outside the viewer.
ViewerKeys ==
    ViewerEvents
      \cup {Key("Char", c) : c \in {"h", "l", "i", "j", "k", "x"}}
      \cup {Key(code, "") : code \in {"Up", "Enter", "Backspace", "PageDown"}}

ClosingKeys == {Key("Esc", ""), Key("Char", "q")}
MovingKeys == {Key("Left", ""), Key("Right", ""), Key("Char", "h"), Key("Char", "l")}

\* The fields of App the viewer owns.
ViewerFields == {"viewing_image", "current_image_protocol", "loading_image", "image_error"}

\* App b differs from App a in no field outside fields.
SameOutside(a, b, fields) == \A f \in (DOMAIN a) \ fields : b[f] = a[f]

C38_ReinsertKeepsEntries ==
    [][\A url \in CacheUrls, image \in CacheImages :
          (CacheInsert(url, image) /\ url \in DOMAIN cache.images)
              => DOMAIN cache'.images = DOMAIN cache.images]_vars


\* ---------------------------------------------------------------------- C39
\* The content holds no `<` and no `>` of its own and at least one of the
\* entities `&lt;` and `&gt;`.
angle_entities_only(content) ==
    /\ \A k \in 1..Len(content) : content[k] \notin {"<", ">"}
    /\ \/ find(content, << "&", "l", "t", ";" >>) # None
       \/ find(content, << "&", "g", "t", ";" >>) # None

\* C39: for a body whose only angle brackets come from `&lt;` and `&gt;`, the
\* decoded text holds the literal `<` or `>`, and the stripping of tags
\* hands on that decoded text whole.
C39_DecodedAnglesKept ==
    frame.drawn =>
        \A i \in 1..Len(frame.blocks) :
            angle_entities_only(content_of(rendered_message(frame.blocks[i])))
                => /\ \E k \in 1..Len(frame.blocks[i].text.entities_decoded) :
                         frame.blocks[i].text.entities_decoded[k] \in {"<", ">"}
                   /\ frame.blocks[i].text.no_html = frame.blocks[i].text.entities_decoded


\* ------------------------------------------------------ local-user detection
\* A chat as api::get_chats holds it once its members are fetched, and a
\* member with its display name, if the service gave one.
ChatMember(display_name) == [display_name |-> display_name]
MemberChat(id, chat_type, members) == [id |-> id, chat_type |-> chat_type, members |-> members]

\* filtered_chats.iter().filter(|c| c.chat_type == "oneOnOne")
one_on_one_chats(filtered_chats) ==
    SelectSeq(filtered_chats, LAMBDA c : c.chat_type = "oneOnOne")

RECURSIVE member_count(_, _)
\* How often name is the display name of one of members.
member_count(members, name) ==
    IF members = << >> THEN 0
    ELSE (IF Head(members).display_name = Some(name) THEN 1 ELSE 0)
             + member_count(Tail(members), name)

RECURSIVE name_count(_, _)
\* name_counts[name] once every member of every chat is counted.
name_count(chats, name) ==
    IF chats = << >> THEN 0
    ELSE member_count(Head(chats).members, name) + name_count(Tail(chats), name)

\* The keys of name_counts.
counted_names(chats) ==
    {chats[i].members[k].display_name[1] :
        <<i, k>> \in {p \in (1..Len(chats)) \X (1..MaxMembers) :
                         /\ p[2] <= Len(chats[p[1]].members)
                         /\ chats[p[1]].members[p[2]].display_name # None}}

\* name_counts.iter().max_by_key(|(_, count)| *count): an entry with the
\* largest count, whichever of them the iteration of the HashMap meets last.
max_by_count(chats) ==
    {name \in counted_names(chats) :
        \A other \in counted_names(chats) : name_count(chats, other) <= name_count(chats, name)}

\* The values current_user_name can have after "Detect the current user".
current_user_names(filtered_chats) ==
    LET one_on_one == one_on_one_chats(filtered_chats)
    IN  IF one_on_one = << >> \/ counted_names(one_on_one) = {} THEN {None}
        ELSE {IF name_count(one_on_one, name) >= 2 \/ Len(one_on_one) = 1
              THEN Some(name) ELSE None : name \in max_by_count(one_on_one)}

\* chat.members.retain(..): the members not named user_name.
retain_others(filtered_chats, current_user_name) ==
    IF current_user_name = None THEN filtered_chats
    ELSE [i \in 1..Len(filtered_chats) |->
             [filtered_chats[i] EXCEPT !.members =
                 SelectSeq(filtered_chats[i].members,
                           LAMBDA m : m.display_name # current_user_name)]]

\* What one call of get_chats returned, with the chats and members the
\* service answered it with.
ChatsResult(fetched, chats, user) == [fetched |-> fetched, chats |-> chats, user |-> user]

\* Member lists the service returns: none (the members request failed), the
\* user with another, in either order, alone, beside a member without a
\* name, and two others.
MemberLists ==
    {<< >>,
     << ChatMember(Some("Me")), ChatMember(Some("Bob")) >>,
     << ChatMember(Some("Eve")), ChatMember(Some("Me")) >>,
     << ChatMember(Some("Me")) >>,
     << ChatMember(None), ChatMember(Some("Me")) >>,
     << ChatMember(Some("Bob")), ChatMember(Some("Eve")) >>}

RECURSIVE FetchedUpTo(_)
\* The lists of up to n chats, one-to-one or group, with these members.
FetchedUpTo(n) ==
    IF n = 0 THEN {<< >>}
    ELSE LET shorter == FetchedUpTo(n - 1)
         IN  shorter \cup
             {Append(t, MemberChat(n, chat_type, members)) :
                 t \in {s \in shorter : Len(s) = n - 1},
                 chat_type \in {"oneOnOne", "group"}, members \in MemberLists}
FetchedLists == FetchedUpTo(MaxFetched)

\* api::get_chats from "Detect the current user" on, for the chats and
\* members fetched: its result waits on the chat channel.
GetChats(fetched) ==
    /\ Len(rx_chats) < MaxRuns
    /\ \E user \in current_user_names(fetched) :
          rx_chats' = Append(rx_chats, ChatsResult(fetched, retain_others(fetched, user), user))
    /\ UNCHANGED <<app, rx, rx_image, tasks, pc, cache, rx_status, frame>>

InitDetect ==
    /\ app = AppNew
    /\ rx = << >> /\ rx_chats = << >> /\ rx_image = << >> /\ rx_status = << >>
    /\ tasks = EmptyBag
    /\ pc = "drain_chats"
    /\ cache = ImageCacheNew(0)
    /\ frame = NoFrame

NextDetect == \E fetched \in FetchedLists : GetChats(fetched)
SpecDetect == InitDetect /\ [][NextDetect]_vars

\* ---------------------------------------------------------------------- C40
\* The largest number of occurrences of one name among the members of the
\* one-to-one chats, 0 if no member has a name.
max_count(chats) ==
    IF counted_names(chats) = {} THEN 0
    ELSE name_count(chats, CHOOSE name \in max_by_count(chats) : TRUE)

\* C40: the name a chat-list fetch detects has the largest number of
\* occurrences among the member names of the one-to-one chats; a name is
\* returned exactly when that number is at least 2 or there is exactly one
\* one-to-one chat; and two fetches of the same chats return the same name.
C40_DetectionIsFunction ==
    \A i \in 1..Len(rx_chats) :
        LET one_on_one == one_on_one_chats(rx_chats[i].fetched)
        IN  /\ rx_chats[i].user # None
                  => name_count(one_on_one, rx_chats[i].user[1]) = max_count(one_on_one)
            /\ rx_chats[i].user # None
                  <=> (max_count(one_on_one) >= 2 \/ Len(one_on_one) = 1)
            /\ \A j \in 1..Len(rx_chats) :
                  rx_chats[j].fetched = rx_chats[i].fetched
                      => rx_chats[j].user = rx_chats[i].user

====
